---- MODULE Spec2Model ----
(***************************************************************************)
(* Model of the multi-agent NIM orchestrator of hard-itl:                  *)
(*   src/agents/orchestrator_nim.py  NIMOrchestrator.run, _call_agent,     *)
(*                                   _collect_peer_messages,               *)
(*                                   _fallback_summary                     *)
(*   src/orchestrator.py             _nim_guidance (the caller of run)     *)
(* Texts are modelled as strings and built exactly as the code builds      *)
(* them.  The completion backend is the environment: every request gets    *)
(* either a reply text drawn from ReplyTexts or an error drawn from        *)
(* ErrorMsgs.                                                              *)
(* Specifications:                                                         *)
(*   Spec                 a run of _nim_guidance / run()                   *)
(*   SpecTwin             a finished run repeated under another observer   *)
(*   SpecCallAgent        one _call_agent invocation, with its response    *)
(*                        body and its times                               *)
(*   SpecFallbackSummary  _fallback_summary invoked on its own             *)
(*   SpecRelay            a sequential run whose roles address each other  *)
(*   SpecCollect          _collect_peer_messages invoked on its own        *)
(*   SpecLive             a run of _nim_guidance / run() in which no step  *)
(*                        that can be taken is postponed forever           *)
(*   SpecRework           a sequential run with several rework rounds      *)
(*   SpecRunCase          run_case of src/orchestrator.py for the hunt     *)
(*                        cases, the runner, the analyst and the agents'   *)
(*                        report being its environment                     *)
(*   SpecDashboard        the request handlers of src/dashboard/server.py  *)
(*                        in their threads, and the orchestrator child     *)
(***************************************************************************)
EXTENDS Integers, Sequences, FiniteSets, TLC

\* ------------------------------------------------------------------ bounds
\* largest NIM_COORDINATOR_REWORK_ROUNDS explored
MaxReworkRounds == 1
\* largest NIM_PEER_MESSAGE_ROUNDS explored
MaxPeerRounds == 1

\* ------------------------------------------------------- program constants
DigestLen == 160
PeerStatusLimit == 3

FanoutRoles == <<"planner", "coder", "critic", "verifier">>
FanoutRoleSet == {"planner", "coder", "critic", "verifier"}
\* the roles of the disabled report without the merge role
AllRoles_FanoutOnly == <<"planner", "coder", "critic", "verifier">>

AllRoles == <<"planner", "coder", "critic", "summarizer", "verifier">>

\* --------------------------------------------------------- the environment
\* evidence strings handed to run()
Evidence == {"case=uart_demo status=fail errors=2"}
\* raw completion texts the backend may return for a fan-out role
ReplyTexts == {"coder: use 230400", "@coder: add crc"}
\* raw completion texts the backend may return to the summarizer
SummaryTexts == {"- {'guess_baud': 230400}", " "}
\* raw completion texts of a backend whose roles address each other: planner
\* asks coder and critic, coder may ask verifier, critic addresses the merge
\* role, verifier may ask itself
PeerReplyTexts(role) ==
    CASE role = "planner" -> {"plan: try 230400", "@coder: add crc\nCALL Critic : check risk"}
      [] role = "coder" -> {"coder: use 230400", "@verifier: confirm crc"}
      [] role = "critic" -> {"risk: low\n@summarizer: keep it short"}
      [] role = "verifier" -> {"confidence=0.8", "@Verifier: recheck uart.log"}
      [] OTHER -> {"- {'guess_baud': 230400}"}
\* messages of the exceptions a call may raise (http status >= 400; a timeout
\* raises asyncio.TimeoutError, whose message is empty)
ErrorMsgs == {"http 500: down"}

\* ---------------------------------------------------------- string helpers
Char(s, i) == SubSeq(s, i, i)

IsSpace(c) == c \in {" ", "\t", "\n", "\r", "\f"}

RECURSIVE LStrip(_)
LStrip(s) == IF Len(s) > 0 /\ IsSpace(Char(s, 1)) THEN LStrip(Tail(s)) ELSE s

RECURSIVE RStrip(_)
RStrip(s) ==
    IF Len(s) > 0 /\ IsSpace(Char(s, Len(s)))
    THEN RStrip(SubSeq(s, 1, Len(s) - 1))
    ELSE s

\* str.strip()
Strip(s) == RStrip(LStrip(s))

\* s[:n]
Prefix(s, n) == SubSeq(s, 1, IF Len(s) < n THEN Len(s) ELSE n)

StartsWith(s, t) == Len(t) <= Len(s) /\ SubSeq(s, 1, Len(t)) = t

\* t occurs in s as a contiguous substring
Contains(s, t) == \E i \in 1..(Len(s) - Len(t) + 1) : SubSeq(s, i, i + Len(t) - 1) = t

\* ------------------------------------------------------------ AgentOutput
AgentOutput(role, text) == [role |-> role, text |-> text]

\* f"{role} unavailable: {exc}"
UnavailableText(role, exc) == role \o " unavailable: " \o exc

\* f"{role} unavailable after peer request: {exc}"
UnavailableAfterPeerText(role, exc) == role \o " unavailable after peer request: " \o exc

\* the stripped content passed on as it is, empty or not
CompletionText_KeepEmpty(role, content) == Strip(content)

\* text = content.strip(); if not text: text = f"{role} produced empty output"
CompletionText(role, content) ==
    IF Strip(content) = "" THEN role \o " produced empty output" ELSE Strip(content)

\* _fallback_summary without the evidence digest
FallbackSummary_NoDigest(reason, prompt) ==
    "## risks\n"
    \o "- NIM unavailable (" \o reason \o "); using deterministic fallback.\n\n"
    \o "## demo_guidance\n"
    \o "- Context digest: "

\* _fallback_summary pasting the whole prompt as the digest
FallbackSummary_WholePrompt(reason, prompt) ==
    "## next_experiments\n"
    \o "- {'uart_rate': 230400, 'buffer_size': 64}\n"
    \o "- {'uart_rate': 115200, 'buffer_size': 128}\n\n"
    \o "## instrumentation\n"
    \o "- Ensure every uart.log line is timestamped and includes RUN_START/RUN_END markers.\n"
    \o "- Add explicit ERROR codes to improve last_error_code extraction.\n\n"
    \o "## risks\n"
    \o "- NIM unavailable (" \o reason \o "); using deterministic fallback.\n\n"
    \o "## demo_guidance\n"
    \o "- Keep runner as the only hardware-touching module and iterate until pass.\n"
    \o "- Context digest: " \o prompt

\* NIMOrchestrator._fallback_summary(reason, prompt)
FallbackSummary(reason, prompt) ==
    "## next_experiments\n"
    \o "- {'uart_rate': 230400, 'buffer_size': 64}\n"
    \o "- {'uart_rate': 115200, 'buffer_size': 128}\n\n"
    \o "## instrumentation\n"
    \o "- Ensure every uart.log line is timestamped and includes RUN_START/RUN_END markers.\n"
    \o "- Add explicit ERROR codes to improve last_error_code extraction.\n\n"
    \o "## risks\n"
    \o "- NIM unavailable (" \o reason \o "); using deterministic fallback.\n\n"
    \o "## demo_guidance\n"
    \o "- Keep runner as the only hardware-touching module and iterate until pass.\n"
    \o "- Context digest: " \o Prefix(prompt, DigestLen)

\* the fixed outputs run() stores when aiohttp is missing
FallbackFanout ==
    << AgentOutput("planner", "Fallback: run uart_rate=230400,buffer_size=64 then 115200/128."),
       AgentOutput("coder", "Fallback: ensure timestamped UART lines and explicit ERROR codes."),
       AgentOutput("critic", "Fallback: keep hardware access constrained to runner module."),
       AgentOutput("verifier",
           "Fallback: confidence=0.42; validator flags possible typo/malformed key risks in coder proposal.") >>

DisabledReport == "NIM orchestration disabled via config."

\* ------------------------------------------ peer requests (string parsing)
UpperLetters == "ABCDEFGHIJKLMNOPQRSTUVWXYZ"
LowerLetters == "abcdefghijklmnopqrstuvwxyz"

LowerChar(c) ==
    IF \E i \in 1..26 : Char(UpperLetters, i) = c
    THEN Char(LowerLetters, CHOOSE i \in 1..26 : Char(UpperLetters, i) = c)
    ELSE c

RECURSIVE Lower(_)
\* str.lower()
Lower(s) == IF s = "" THEN "" ELSE LowerChar(Char(s, 1)) \o Lower(Tail(s))

RECURSIVE SplitLinesAcc(_, _, _)
SplitLinesAcc(s, cur, acc) ==
    IF s = "" THEN (IF cur = "" THEN acc ELSE Append(acc, cur))
    ELSE IF Char(s, 1) = "\n" THEN SplitLinesAcc(Tail(s), "", Append(acc, cur))
    ELSE SplitLinesAcc(Tail(s), cur \o Char(s, 1), acc)

\* str.splitlines() (the reply alphabet holds "\n" as its only line boundary)
SplitLines(s) == SplitLinesAcc(s, "", <<>>)

NoMatch == [ok |-> FALSE, role |-> "", msg |-> ""]

\* the prefix made optional: (?:@|CALL\s+)?
AfterCallPrefix_Optional(line) ==
    IF StartsWith(line, "@") THEN Tail(line)
    ELSE IF Len(line) >= 5 /\ Lower(SubSeq(line, 1, 4)) = "call" /\ IsSpace(Char(line, 5))
         THEN LStrip(SubSeq(line, 5, Len(line)))
         ELSE line

\* the text after the (?:@|CALL\s+) prefix, or "\n" (which no stripped line
\* holds) when the prefix does not match
AfterCallPrefix(line) ==
    IF StartsWith(line, "@") THEN Tail(line)
    ELSE IF Len(line) >= 5 /\ Lower(SubSeq(line, 1, 4)) = "call" /\ IsSpace(Char(line, 5))
         THEN LStrip(SubSeq(line, 5, Len(line)))
         ELSE "\n"

\* re.match(r"^(?:@|CALL\s+)(planner|coder|critic|verifier)\s*:\s*(.+)$", line, re.IGNORECASE)
\* with group(1).lower() and group(2).strip()
MatchPeerLine(line) ==
    LET rest == AfterCallPrefix(line)
        cands == {r \in FanoutRoleSet : Lower(Prefix(rest, Len(r))) = r}
    IN  IF cands = {} THEN NoMatch
        ELSE LET role == CHOOSE r \in cands : TRUE
                 afterRole == LStrip(SubSeq(rest, Len(role) + 1, Len(rest)))
             IN  IF ~StartsWith(afterRole, ":") THEN NoMatch
                 ELSE LET body == LStrip(Tail(afterRole))
                      IN  IF body = "" THEN NoMatch
                          ELSE [ok |-> TRUE, role |-> role, msg |-> Strip(body)]

EmptyInbox == [r \in FanoutRoleSet |-> <<>>]

RECURSIVE ScanLines_SkipSelf(_, _, _)
\* the inner loop dropping the requests a role addresses to itself
ScanLines_SkipSelf(lines, sender, inb) ==
    IF Len(lines) = 0 THEN inb
    ELSE LET line == Strip(Head(lines))
             m == IF line = "" THEN NoMatch ELSE MatchPeerLine(line)
         IN  ScanLines_SkipSelf(Tail(lines), sender,
                 IF m.ok /\ m.msg # "" /\ m.role # sender
                 THEN [inb EXCEPT ![m.role] = Append(@, "from " \o sender \o ": " \o m.msg)]
                 ELSE inb)

RECURSIVE ScanLines(_, _, _)
\* the inner loop of _collect_peer_messages over one output's lines
ScanLines(lines, sender, inb) ==
    IF Len(lines) = 0 THEN inb
    ELSE LET line == Strip(Head(lines))
             m == IF line = "" THEN NoMatch ELSE MatchPeerLine(line)
         IN  ScanLines(Tail(lines), sender,
                 IF m.ok /\ m.msg # ""
                 THEN [inb EXCEPT ![m.role] = Append(@, "from " \o sender \o ": " \o m.msg)]
                 ELSE inb)

RECURSIVE CollectFrom(_, _)
CollectFrom(outputs, inb) ==
    IF Len(outputs) = 0 THEN inb
    ELSE CollectFrom(Tail(outputs),
             ScanLines(SplitLines(Head(outputs).text), Head(outputs).role, inb))

\* NIMOrchestrator._collect_peer_messages(outputs)
CollectPeerMessages(outputs) == CollectFrom(outputs, EmptyInbox)

\* any(inbox.values())
AnyInbox(inb) == \E r \in FanoutRoleSet : Len(inb[r]) > 0

RECURSIVE JoinWith(_, _)
\* sep.join(parts)
JoinWith(parts, sep) ==
    IF Len(parts) = 0 THEN ""
    ELSE IF Len(parts) = 1 THEN Head(parts)
    ELSE Head(parts) \o sep \o JoinWith(Tail(parts), sep)

\* str(round_idx + 1) for the rounds the bounds allow
DecStr(n) == CASE n = 1 -> "1" [] n = 2 -> "2" [] n = 3 -> "3" [] n = 4 -> "4" [] OTHER -> "5"

\* ------------------------------------------------------- prompts of run()
\* critic_input with planner's text pasted into both sections
CriticInput_PlannerTwice(prompt, planner_text, coder_text) ==
    prompt \o "\n\n[coder_proposal]\n" \o planner_text
           \o "\n\n[planner_experiments]\n" \o planner_text

\* critic_input (parallel mode)
CriticInput(prompt, planner_text, coder_text) ==
    prompt \o "\n\n[coder_proposal]\n" \o coder_text
           \o "\n\n[planner_experiments]\n" \o planner_text

\* verifier_input (parallel mode)
VerifierInput(prompt, planner_text, coder_text, critic_text) ==
    prompt \o "\n\n[planner]\n" \o planner_text
           \o "\n\n[coder]\n" \o coder_text
           \o "\n\n[critic]\n" \o critic_text

\* ["- " + m for m in msgs]
Bullets(msgs) == [i \in 1..Len(msgs) |-> "- " \o msgs[i]]

\* peer_prompt of relay round round (0-based) for item with inbox msgs
PeerPrompt(role, round, msgs, text, prompt) ==
    "Peer agents requested follow-up specialization. "
    \o "Address these requests for role=" \o role \o " and refine your output.\n\n"
    \o "[peer_requests_round_" \o DecStr(round + 1) \o "]\n"
    \o JoinWith(Bullets(msgs), "\n")
    \o "\n\n[current_output]\n" \o text
    \o "\n\n[original_evidence]\n" \o prompt

\* the sections without their role labels
Sections_NoLabel(outputs) == [i \in 1..Len(outputs) |-> outputs[i].text]

\* [f"[{x.role}]\n{x.text}" for x in normalized]
Sections(outputs) == [i \in 1..Len(outputs) |-> "[" \o outputs[i].role \o "]\n" \o outputs[i].text]

\* merged_input = "\n\n".join(...)
MergedInput(outputs) == JoinWith(Sections(outputs), "\n\n")

\* feedback_prompt of rework round round (0-based)
FeedbackPrompt(round, summary_text, prompt) ==
    "Coordinator requests one focused refinement pass. "
    \o "Revise instrumentation/fix guidance only. Keep it minimal and actionable.\n\n"
    \o "[current_summary_round_" \o DecStr(round + 1) \o "]\n" \o summary_text \o "\n\n"
    \o "[original_evidence]\n" \o prompt

\* every rework section labelled as the first round's
ReworkMergedInput_SameLabel(merged, round, rework_text) ==
    merged \o "\n\n[coder_rework_round_1]\n" \o rework_text

\* merged_input + f"\n\n[coder_rework_round_{round_idx + 1}]\n{coder_rework.text}"
ReworkMergedInput(merged, round, rework_text) ==
    merged \o "\n\n[coder_rework_round_" \o DecStr(round + 1) \o "]\n" \o rework_text

\* ------------------------------------------------------------------ state
VARIABLES
    nim_enabled,                \* _nim_guidance: nim_orchestrator is not None
    aiohttp_present,            \* the module-level aiohttp import succeeded
    execution_mode,             \* self.execution_mode
    coordinator_rework_rounds,  \* self.coordinator_rework_rounds
    peer_message_rounds,        \* self.peer_message_rounds
    status_callback,            \* "none" or "ok": the observer handed to run()
    user_prompt,                \* the evidence
    backend,                    \* the completions the backend has in store
    pc,                         \* where the main coroutine (run) stands
    task,                       \* planner_task / coder_task of the parallel fan-out
    call,                       \* the _call_agent invocation of each coroutine
    planner_out, coder_out, critic_out,
    normalized, refreshed, inbox, round_idx, item_idx,
    merged_input, summary, last_fanout,
    events,                     \* status events delivered to the observer
    requests,                   \* requests posted to the backend, each with its result
    fanout_done,                \* history: RoundState as the fan-out left it
    run_outcome,                \* how run() ended: "none", "returned", "raised"
    report,                     \* what _nim_guidance returned
    fb_calls,                   \* standalone _fallback_summary invocations, with their results
    first_run,                  \* the finished run of the same input that had a working observer
    ca,                         \* one _call_agent invocation on its own, with its times
    now,                        \* the clock that invocation reads (time.perf_counter), in ticks
    pm,                         \* one _collect_peer_messages invocation on its own, with its result
    rc,                         \* one run_case invocation on its own
    srv                         \* the dashboard server on its own

config == <<nim_enabled, aiohttp_present, execution_mode, coordinator_rework_rounds,
            peer_message_rounds, status_callback, user_prompt, backend>>

locals == <<planner_out, coder_out, critic_out, normalized, refreshed, inbox, round_idx,
            item_idx, merged_input, summary, last_fanout>>

\* the state of the standalone specifications, which run() leaves alone
aside == <<fb_calls, first_run, ca, now, pm, rc, srv>>

\* everything NIMOrchestrator.run and _nim_guidance work on
runVars == <<config, pc, task, call, locals, events, requests, fanout_done, run_outcome, report>>

vars == <<runVars, aside>>

Coroutines == {"main", "planner", "coder"}
TaskIds == {"planner", "coder"}

NoOutput == [role |-> "", text |-> ""]
NoReport == [set |-> FALSE, text |-> ""]
IdleCall == [st |-> "idle", role |-> "", text |-> "", req |-> 0]
NoTask == [st |-> "none", val |-> ""]

NoFirstRun ==
    [set |-> FALSE, requests |-> <<>>, last_fanout |-> <<>>, report |-> NoReport,
     run_outcome |-> "none"]

IdleAgentCall ==
    [st |-> "idle", role |-> "", observer |-> "none", role_min |-> 0, t0 |-> 0,
     status |-> 0, body |-> "", arrived |-> 0, wake |-> 0, finished |-> 0,
     text |-> "", exc |-> "", events |-> <<>>]

NoCollect == [set |-> FALSE, outputs |-> <<>>, inbox |-> EmptyInbox]

\* run_case has not been called
NoRunCase == [pc |-> "none"]

\* no dashboard server
NoServer == [PROCESS |-> 0]

\* nothing of the standalone specifications has happened
AsideIdle ==
    /\ fb_calls = <<>> /\ first_run = NoFirstRun /\ ca = IdleAgentCall /\ now = 0
    /\ pm = NoCollect /\ rc = NoRunCase /\ srv = NoServer

\* run() has not been entered
RunIdle ==
    /\ pc = "entry"
    /\ task = [t \in TaskIds |-> NoTask]
    /\ call = [c \in Coroutines |-> IdleCall]
    /\ planner_out = NoOutput /\ coder_out = NoOutput /\ critic_out = NoOutput
    /\ normalized = <<>> /\ refreshed = <<>> /\ inbox = EmptyInbox
    /\ round_idx = 0 /\ item_idx = 0
    /\ merged_input = "" /\ summary = NoOutput
    /\ events = <<>> /\ requests = <<>> /\ fanout_done = <<>>
    /\ run_outcome = "none" /\ report = NoReport

Init ==
    /\ nim_enabled \in BOOLEAN
    /\ aiohttp_present \in BOOLEAN
    /\ execution_mode \in {"sequential", "parallel"}
    /\ coordinator_rework_rounds \in 0..MaxReworkRounds
    /\ peer_message_rounds \in 0..MaxPeerRounds
    /\ status_callback \in {"none", "ok"}
    /\ user_prompt \in Evidence
    /\ backend = "plain"
    /\ RunIdle /\ last_fanout = <<>>
    /\ AsideIdle

\* ---------------------------------------------------------- status events
StatusEvent(role, state, message) == [role |-> role, state |-> state, message |-> message]

\* if status_callback is not None: status_callback(role, state, message)
Emit(evs, role, state, message) ==
    IF status_callback = "none" THEN evs ELSE Append(evs, StatusEvent(role, state, message))

RECURSIVE EmitAll(_, _)
EmitAll(evs, list) ==
    IF Len(list) = 0 THEN evs
    ELSE EmitAll(Emit(evs, Head(list).role, Head(list).state, Head(list).message), Tail(list))

Request(role, user) == [role |-> role, user |-> user, result |-> "pending", val |-> ""]

\* the backend's answer to request req, as a history of the request
Answered(reqs, req, result, val) == [reqs EXCEPT ![req].result = result, ![req].val = val]

\* ------------------------------------------- the main coroutine's frame
\* The values run() holds when it next suspends: its position, its locals,
\* the events emitted so far, and the role and user input of the call it
\* suspends in.
Frame ==
    [pc |-> pc, normalized |-> normalized, refreshed |-> refreshed, inbox |-> inbox,
     round_idx |-> round_idx, item_idx |-> item_idx, merged_input |-> merged_input,
     last_fanout |-> last_fanout, events |-> events, requests |-> requests,
     fanout_done |-> fanout_done, role |-> "", user |-> ""]

\* the main coroutine's frame after its call returned, with the events evs
Returned(evs) == [Frame EXCEPT !.events = evs]

\* the main coroutine's frame after its call raised exc, with the events evs
Failed(evs, exc) ==
    [Frame EXCEPT !.events = evs, !.requests = Answered(requests, call["main"].req, "error", exc)]

\* self.last_fanout = normalized; merged_input = ...; the first summarizer call
ToMerge(f, norm) ==
    [f EXCEPT !.pc = "merge_call", !.normalized = norm, !.last_fanout = norm,
              !.merged_input = MergedInput(norm),
              !.role = "summarizer", !.user = MergedInput(norm)]

\* for msg in msgs[:3]: status_callback(role, "running", f"Peer call {msg} -> {role}")
PeerRunningEvents(role, msgs) ==
    [i \in 1..(IF Len(msgs) < PeerStatusLimit THEN Len(msgs) ELSE PeerStatusLimit) |->
        StatusEvent(role, "running", "Peer call " \o msgs[i] \o " -> " \o role)]

RECURSIVE RelayScan(_, _, _, _, _, _)
RECURSIVE RelayRound(_, _, _)

\* the relay round re-invoking every role, with or without messages
RelayScan_CallsAll(f, norm, r, j, refr, inb) ==
    IF j > Len(norm) THEN RelayRound(f, refr, r + 1)
    ELSE LET item == norm[j]
             msgs == inb[item.role]
         IN  [f EXCEPT !.pc = "relay_call", !.normalized = norm, !.refreshed = refr,
                       !.inbox = inb, !.round_idx = r, !.item_idx = j,
                       !.events = EmitAll(f.events, PeerRunningEvents(item.role, msgs)),
                       !.role = item.role,
                       !.user = PeerPrompt(item.role, r, msgs, item.text, user_prompt)]

\* the relay round reading each role's messages from the outputs as they
\* stand when the role's turn comes: those refreshed so far and the rest
RelayScan_LiveInbox(f, norm, r, j, refr, inb) ==
    IF j > Len(norm) THEN RelayRound(f, refr, r + 1)
    ELSE LET item == norm[j]
             msgs == CollectPeerMessages(refr \o SubSeq(norm, j, Len(norm)))[item.role]
         IN  IF Len(msgs) = 0
             THEN RelayScan(f, norm, r, j + 1, Append(refr, item), inb)
             ELSE [f EXCEPT !.pc = "relay_call", !.normalized = norm, !.refreshed = refr,
                            !.inbox = inb, !.round_idx = r, !.item_idx = j,
                            !.events = EmitAll(f.events, PeerRunningEvents(item.role, msgs)),
                            !.role = item.role,
                            !.user = PeerPrompt(item.role, r, msgs, item.text, user_prompt)]

\* `for item in normalized` of relay round r, standing before item j, with the
\* round's inbox inb and the refreshed list refr: pass items without messages
\* through until a role with messages is called; after the last item,
\* normalized = refreshed and the next round starts
RelayScan(f, norm, r, j, refr, inb) ==
    IF j > Len(norm) THEN RelayRound(f, refr, r + 1)
    ELSE LET item == norm[j]
             msgs == inb[item.role]
         IN  IF Len(msgs) = 0
             THEN RelayScan(f, norm, r, j + 1, Append(refr, item), inb)
             ELSE [f EXCEPT !.pc = "relay_call", !.normalized = norm, !.refreshed = refr,
                            !.inbox = inb, !.round_idx = r, !.item_idx = j,
                            !.events = EmitAll(f.events, PeerRunningEvents(item.role, msgs)),
                            !.role = item.role,
                            !.user = PeerPrompt(item.role, r, msgs, item.text, user_prompt)]

\* the relay loop running one round more than configured
RelayRound_OneMore(f, norm, r) ==
    IF r > peer_message_rounds THEN ToMerge(f, norm)
    ELSE LET inb == CollectPeerMessages(norm)
         IN  IF ~AnyInbox(inb) THEN ToMerge(f, norm)
             ELSE RelayScan(f, norm, r, 1, <<>>, inb)

\* `for round_idx in range(self.peer_message_rounds)`, standing before round r
RelayRound(f, norm, r) ==
    IF r >= peer_message_rounds THEN ToMerge(f, norm)
    ELSE LET inb == CollectPeerMessages(norm)
         IN  IF ~AnyInbox(inb) THEN ToMerge(f, norm)
             ELSE RelayScan(f, norm, r, 1, <<>>, inb)

\* the fan-out is over: the relay loop starts from its result
AfterFanout(f, norm) == RelayRound([f EXCEPT !.fanout_done = norm], norm, 0)

\* the sequential fan-out loop leaving out its last role
SeqNext_SkipLast(f, norm) ==
    IF Len(norm) < Len(FanoutRoles) - 1
    THEN [f EXCEPT !.pc = "seq_call", !.normalized = norm,
                   !.role = FanoutRoles[Len(norm) + 1], !.user = user_prompt]
    ELSE AfterFanout(f, norm)

\* the sequential fan-out loop handing each role the outputs so far
SeqNext_ChainedInput(f, norm) ==
    IF Len(norm) < Len(FanoutRoles)
    THEN [f EXCEPT !.pc = "seq_call", !.normalized = norm,
                   !.role = FanoutRoles[Len(norm) + 1],
                   !.user = IF Len(norm) = 0 THEN user_prompt
                            ELSE user_prompt \o "\n\n" \o MergedInput(norm)]
    ELSE AfterFanout(f, norm)

\* the sequential fan-out loop after one more entry has been appended
SeqNext(f, norm) ==
    IF Len(norm) < Len(FanoutRoles)
    THEN [f EXCEPT !.pc = "seq_call", !.normalized = norm,
                   !.role = FanoutRoles[Len(norm) + 1], !.user = user_prompt]
    ELSE AfterFanout(f, norm)

\* ---------------------------------------------------------- _call_agent
RunningMessage == "Working on current evidence bundle."

\* _call_agent without its running event
CallStartEvents_Silent(evs, role) == evs

\* _call_agent up to its first suspension: the running event and the request
CallStartEvents(evs, role) == Emit(evs, role, "running", RunningMessage)

\* req is the request's position in requests
InFlight(role, req) == [st |-> "inflight", role |-> role, text |-> "", req |-> req]

\* _call_agent after the minimum-visible sleep: the done event
CallDoneEvents(evs, role, text) == Emit(evs, role, "done", text)

\* the except branch of a fan-out or relay call site
CallErrorEvents(evs, role, exc) == Emit(evs, role, "error", exc)


\* the main coroutine runs on to the call of frame f and suspends in it
Resume(f) ==
    /\ pc' = f.pc
    /\ normalized' = f.normalized
    /\ refreshed' = f.refreshed
    /\ inbox' = f.inbox
    /\ round_idx' = f.round_idx
    /\ item_idx' = f.item_idx
    /\ merged_input' = f.merged_input
    /\ last_fanout' = f.last_fanout
    /\ events' = CallStartEvents(f.events, f.role)
    /\ requests' = Append(f.requests, Request(f.role, f.user))
    /\ fanout_done' = f.fanout_done
    /\ call' = [call EXCEPT !["main"] = InFlight(f.role, Len(f.requests) + 1)]

\* run() returns text; _nim_guidance returns it
RunReturns(evs, text) ==
    /\ pc' = "done"
    /\ run_outcome' = "returned"
    /\ report' = [set |-> TRUE, text |-> text]
    /\ events' = evs
    /\ call' = [call EXCEPT !["main"] = IdleCall]

\* an exception leaves run(); _nim_guidance reports a summarizer error and
\* returns the fallback summary built from the exception's message
RunRaises(exc) ==
    /\ requests' = Answered(requests, call["main"].req, "error", exc)
    /\ pc' = "done"
    /\ run_outcome' = "raised"
    /\ report' = [set |-> TRUE, text |-> FallbackSummary(exc, user_prompt)]
    /\ events' = Emit(events, "summarizer", "error", exc)
    /\ call' = [call EXCEPT !["main"] = IdleCall]

\* the observer returns from every call ("raises": it raises on every call)
ObserverWorks == status_callback # "raises"

\* ---------------------------------------------------------------- actions
\* _nim_guidance with nim_orchestrator None
NimGuidanceDisabled ==
    /\ pc = "entry" /\ ~nim_enabled /\ ObserverWorks
    /\ events' = EmitAll(events,
           [i \in 1..Len(AllRoles) |-> StatusEvent(AllRoles[i], "disabled", "NIM orchestration disabled.")])
    /\ report' = [set |-> TRUE, text |-> DisabledReport]
    /\ pc' = "done"
    /\ UNCHANGED <<config, aside, task, call, locals, requests, fanout_done, run_outcome>>

\* the scripted events going role by role: running then fallback for each
FallbackEvents_PerRole ==
    << StatusEvent("planner", "running", "Planning next experiments from UART evidence."),
       StatusEvent("planner", "fallback", FallbackFanout[1].text),
       StatusEvent("coder", "running", "Drafting minimal instrumentation improvements."),
       StatusEvent("coder", "fallback", FallbackFanout[2].text),
       StatusEvent("critic", "running", "Reviewing feasibility and runner-only constraints."),
       StatusEvent("critic", "fallback", FallbackFanout[3].text),
       StatusEvent("verifier", "running", "Scoring evidence quality and confidence."),
       StatusEvent("verifier", "fallback", FallbackFanout[4].text),
       StatusEvent("summarizer", "running", "Merging planner/coder/debugger/verifier updates."),
       StatusEvent("summarizer", "fallback", "Using deterministic fallback summary.") >>

\* the scripted events of run() when aiohttp is None
FallbackEvents ==
    << StatusEvent("planner", "running", "Planning next experiments from UART evidence."),
       StatusEvent("coder", "running", "Drafting minimal instrumentation improvements."),
       StatusEvent("critic", "running", "Reviewing feasibility and runner-only constraints."),
       StatusEvent("verifier", "running", "Scoring evidence quality and confidence.") >>
    \o [i \in 1..Len(FallbackFanout) |->
           StatusEvent(FallbackFanout[i].role, "fallback", FallbackFanout[i].text)]
    \o << StatusEvent("summarizer", "running", "Merging planner/coder/debugger/verifier updates."),
          StatusEvent("summarizer", "fallback", "Using deterministic fallback summary.") >>

\* run() when aiohttp is None, its return placed inside the observer's branch:
\* without an observer the function runs on into the session of the missing
\* client and raises
RunFallback_ReturnInsideIf ==
    /\ pc = "entry" /\ nim_enabled /\ ~aiohttp_present /\ ObserverWorks
    /\ last_fanout' = FallbackFanout
    /\ events' = EmitAll(events, FallbackEvents)
    /\ run_outcome' = (IF status_callback = "none" THEN "raised" ELSE "returned")
    /\ report' = [set |-> TRUE,
                  text |-> FallbackSummary(IF status_callback = "none"
                                             THEN "'NoneType' object has no attribute 'ClientSession'"
                                             ELSE "aiohttp missing", user_prompt)]
    /\ pc' = "done"
    /\ UNCHANGED <<config, aside, task, call, planner_out, coder_out, critic_out, normalized,
                   refreshed, inbox, round_idx, item_idx, merged_input, summary, requests,
                   fanout_done>>

\* run() when aiohttp is None
RunFallback ==
    /\ pc = "entry" /\ nim_enabled /\ ~aiohttp_present /\ ObserverWorks
    /\ last_fanout' = FallbackFanout
    /\ events' = EmitAll(events, FallbackEvents)
    /\ run_outcome' = "returned"
    /\ report' = [set |-> TRUE, text |-> FallbackSummary("aiohttp missing", user_prompt)]
    /\ pc' = "done"
    /\ UNCHANGED <<config, aside, task, call, planner_out, coder_out, critic_out, normalized,
                   refreshed, inbox, round_idx, item_idx, merged_input, summary, requests,
                   fanout_done>>

\* run(), sequential mode: the fan-out loop enters its first call
RunSequentialStart ==
    /\ pc = "entry" /\ nim_enabled /\ aiohttp_present /\ ObserverWorks
    /\ execution_mode = "sequential"
    /\ Resume(SeqNext(Returned(events), <<>>))
    /\ UNCHANGED <<config, aside, task, planner_out, coder_out, critic_out, summary,
                   run_outcome, report>>

\* run(), parallel mode: create_task twice, then await planner_task
RunParallelStart ==
    /\ pc = "entry" /\ nim_enabled /\ aiohttp_present /\ ObserverWorks
    /\ execution_mode = "parallel"
    /\ task' = [t \in TaskIds |-> [st |-> "created", val |-> ""]]
    /\ pc' = "par_await_planner"
    /\ UNCHANGED <<config, aside, call, locals, events, requests, fanout_done, run_outcome, report>>

\* coder_task started from planner's section instead of the raw evidence
TaskStart_CoderFromPlanner(t) ==
    /\ task[t].st = "created"
    /\ t = "coder" => task["planner"].st # "created"
    /\ task' = [task EXCEPT ![t] = [st |-> "running", val |-> ""]]
    /\ events' = CallStartEvents(events, t)
    /\ requests' = Append(requests, Request(t, IF t = "coder"
                                                 THEN user_prompt \o "\n\n[planner]\n"
                                                 ELSE user_prompt))
    /\ call' = [call EXCEPT ![t] = InFlight(t, Len(requests) + 1)]
    /\ UNCHANGED <<config, aside, pc, locals, fanout_done, run_outcome, report>>

\* the event loop runs a created task to its first suspension (planner_task
\* was scheduled first)
TaskStart(t) ==
    /\ task[t].st = "created"
    /\ t = "coder" => task["planner"].st # "created"
    /\ task' = [task EXCEPT ![t] = [st |-> "running", val |-> ""]]
    /\ events' = CallStartEvents(events, t)
    /\ requests' = Append(requests, Request(t, user_prompt))
    /\ call' = [call EXCEPT ![t] = InFlight(t, Len(requests) + 1)]
    /\ UNCHANGED <<config, aside, pc, locals, fanout_done, run_outcome, report>>

\* replies the backend may give to a role
RepliesFor(role) ==
    IF backend = "peers" THEN PeerReplyTexts(role)
    ELSE IF role = "summarizer" THEN SummaryTexts ELSE ReplyTexts

\* the backend answers a request with status < 400 and a parsable body; the
\* coroutine extracts the text and sleeps out the minimum visible duration
BackendReply(c) ==
    /\ call[c].st = "inflight"
    /\ \A t \in TaskIds : task[t].st # "created"
    /\ \E content \in RepliesFor(call[c].role) :
          /\ call' = [call EXCEPT ![c] = [st |-> "sleeping", role |-> call[c].role,
                                          text |-> CompletionText(call[c].role, content),
                                          req |-> call[c].req]]
          /\ requests' = Answered(requests, call[c].req, "ok", content)
    /\ UNCHANGED <<config, aside, pc, task, locals, events, fanout_done, run_outcome, report>>

\* a task's call raises and reports its error event itself, at once
TaskCallRaise_ReportsAtOnce(t) ==
    /\ call[t].st = "inflight"
    /\ \A u \in TaskIds : task[u].st # "created"
    /\ \E exc \in ErrorMsgs :
          /\ task' = [task EXCEPT ![t] = [st |-> "raised", val |-> exc]]
          /\ requests' = Answered(requests, call[t].req, "error", exc)
          /\ events' = Emit(events, t, "error", exc)
    /\ call' = [call EXCEPT ![t] = IdleCall]
    /\ UNCHANGED <<config, aside, pc, locals, fanout_done, run_outcome, report>>

\* a task's call raises: the exception is stored in the task
TaskCallRaise(t) ==
    /\ call[t].st = "inflight"
    /\ \A u \in TaskIds : task[u].st # "created"
    /\ \E exc \in ErrorMsgs :
          /\ task' = [task EXCEPT ![t] = [st |-> "raised", val |-> exc]]
          /\ requests' = Answered(requests, call[t].req, "error", exc)
    /\ call' = [call EXCEPT ![t] = IdleCall]
    /\ UNCHANGED <<config, aside, pc, locals, events, fanout_done, run_outcome, report>>

\* a task's call returns: done event, the output is stored in the task
TaskCallReturn(t) ==
    /\ call[t].st = "sleeping"
    /\ events' = CallDoneEvents(events, t, call[t].text)
    /\ task' = [task EXCEPT ![t] = [st |-> "done", val |-> call[t].text]]
    /\ call' = [call EXCEPT ![t] = IdleCall]
    /\ UNCHANGED <<config, aside, pc, locals, requests, fanout_done, run_outcome, report>>

\* an await that returns once the task has started
TaskFinished_Started(t) == task[t].st # "created"

\* a task that never completes: its await never resumes
TaskFinished_Never(t) == FALSE

\* run() waiting for planner_task alone
TaskFinished_PlannerOnly(t) == task["planner"].st \in {"done", "raised"}

TaskFinished(t) == task[t].st \in {"done", "raised"}

\* what `await <task>` yields to run(): the output, or the placeholder of the
\* except branch
AwaitedOutput(t) ==
    IF task[t].st = "done" THEN AgentOutput(t, task[t].val)
    ELSE AgentOutput(t, UnavailableText(t, task[t].val))

AwaitedEvents(evs, t) ==
    IF task[t].st = "raised" THEN CallErrorEvents(evs, t, task[t].val) ELSE evs

\* run() after both awaits: build critic_input and call critic
CriticFrame(evs, p_out, c_out) ==
    [Frame EXCEPT !.pc = "par_critic", !.events = evs, !.role = "critic",
                  !.user = CriticInput(user_prompt, p_out.text, c_out.text)]

\* `await planner_task` completes; when coder_task has finished too,
\* `await coder_task` does not suspend and run() goes on to the critic call
AwaitPlanner ==
    /\ pc = "par_await_planner" /\ TaskFinished("planner")
    /\ planner_out' = AwaitedOutput("planner")
    /\ IF TaskFinished("coder")
       THEN /\ coder_out' = AwaitedOutput("coder")
            /\ Resume(CriticFrame(AwaitedEvents(AwaitedEvents(events, "planner"), "coder"),
                                  AwaitedOutput("planner"), AwaitedOutput("coder")))
       ELSE /\ pc' = "par_await_coder"
            /\ events' = AwaitedEvents(events, "planner")
            /\ UNCHANGED <<coder_out, normalized, refreshed, inbox, round_idx, item_idx,
                           merged_input, last_fanout, requests, fanout_done, call>>
    /\ UNCHANGED <<config, aside, task, critic_out, summary, run_outcome, report>>

\* `await coder_task` completes
AwaitCoder ==
    /\ pc = "par_await_coder" /\ TaskFinished("coder")
    /\ coder_out' = AwaitedOutput("coder")
    /\ Resume(CriticFrame(AwaitedEvents(events, "coder"), planner_out, AwaitedOutput("coder")))
    /\ UNCHANGED <<config, aside, task, planner_out, critic_out, summary, run_outcome, report>>

\* the locals Resume, RunReturns and RunRaises leave alone
relayLocals == <<normalized, refreshed, inbox, round_idx, item_idx, merged_input, last_fanout>>

MainRole == call["main"].role
MainText == call["main"].text
MainSleeping(at) == pc = at /\ call["main"].st = "sleeping"
MainInFlight(at) == pc = at /\ call["main"].st = "inflight"

\* sequential fan-out: item = await self._call_agent(...); normalized.append(item)
SeqFanoutReturn ==
    /\ MainSleeping("seq_call")
    /\ Resume(SeqNext(Returned(CallDoneEvents(events, MainRole, MainText)),
                      Append(normalized, AgentOutput(MainRole, MainText))))
    /\ UNCHANGED <<config, aside, task, planner_out, coder_out, critic_out, summary,
                   run_outcome, report>>

\* sequential fan-out with no except branch: the exception leaves run()
SeqFanoutRaise_Uncaught ==
    /\ MainInFlight("seq_call")
    /\ \E exc \in ErrorMsgs : RunRaises(exc)
    /\ UNCHANGED <<config, aside, task, locals, fanout_done>>

\* sequential fan-out: the except branch
SeqFanoutRaise ==
    /\ MainInFlight("seq_call")
    /\ \E exc \in ErrorMsgs :
          Resume(SeqNext(Failed(CallErrorEvents(events, MainRole, exc), exc),
                         Append(normalized, AgentOutput(MainRole, UnavailableText(MainRole, exc)))))
    /\ UNCHANGED <<config, aside, task, planner_out, coder_out, critic_out, summary,
                   run_outcome, report>>

\* run() after critic: build verifier_input and call verifier
VerifierFrame(f, k_out) ==
    [f EXCEPT !.pc = "par_verifier", !.role = "verifier",
                  !.user = VerifierInput(user_prompt, planner_out.text, coder_out.text, k_out.text)]

\* parallel fan-out: critic_out = await self._call_agent(... "critic" ...)
CriticReturn ==
    /\ MainSleeping("par_critic")
    /\ critic_out' = AgentOutput("critic", MainText)
    /\ Resume(VerifierFrame(Returned(CallDoneEvents(events, "critic", MainText)),
                            AgentOutput("critic", MainText)))
    /\ UNCHANGED <<config, aside, task, planner_out, coder_out, summary, run_outcome, report>>

\* parallel fan-out: the except branch of the critic call
CriticRaise ==
    /\ MainInFlight("par_critic")
    /\ \E exc \in ErrorMsgs :
          /\ critic_out' = AgentOutput("critic", UnavailableText("critic", exc))
          /\ Resume(VerifierFrame(Failed(CallErrorEvents(events, "critic", exc), exc),
                                  AgentOutput("critic", UnavailableText("critic", exc))))
    /\ UNCHANGED <<config, aside, task, planner_out, coder_out, summary, run_outcome, report>>

\* the parallel fan-out listing coder's output before planner's
ParallelNormalized_CoderFirst(v_out) == <<coder_out, planner_out, critic_out, v_out>>

\* normalized = [planner_out, coder_out, critic_out, verifier_out]
ParallelNormalized(v_out) == <<planner_out, coder_out, critic_out, v_out>>

\* parallel fan-out: verifier_out = await self._call_agent(... "verifier" ...)
VerifierReturn ==
    /\ MainSleeping("par_verifier")
    /\ Resume(AfterFanout(Returned(CallDoneEvents(events, "verifier", MainText)),
                          ParallelNormalized(AgentOutput("verifier", MainText))))
    /\ UNCHANGED <<config, aside, task, planner_out, coder_out, critic_out, summary,
                   run_outcome, report>>

\* parallel fan-out: the except branch of the verifier call
VerifierRaise ==
    /\ MainInFlight("par_verifier")
    /\ \E exc \in ErrorMsgs :
          Resume(AfterFanout(Failed(CallErrorEvents(events, "verifier", exc), exc),
                             ParallelNormalized(AgentOutput("verifier", UnavailableText("verifier", exc)))))
    /\ UNCHANGED <<config, aside, task, planner_out, coder_out, critic_out, summary,
                   run_outcome, report>>

\* relay: updated = await self._call_agent(...); refreshed.append(updated)
RelayReturn ==
    /\ MainSleeping("relay_call")
    /\ Resume(RelayScan(Returned(CallDoneEvents(events, MainRole, MainText)),
                        normalized, round_idx, item_idx + 1,
                        Append(refreshed, AgentOutput(MainRole, MainText)), inbox))
    /\ UNCHANGED <<config, aside, task, planner_out, coder_out, critic_out, summary,
                   run_outcome, report>>

\* the relay call with no except branch: the exception leaves run()
RelayRaise_Uncaught ==
    /\ MainInFlight("relay_call")
    /\ \E exc \in ErrorMsgs : RunRaises(exc)
    /\ UNCHANGED <<config, aside, task, locals, fanout_done>>

\* relay: the except branch
RelayRaise ==
    /\ MainInFlight("relay_call")
    /\ \E exc \in ErrorMsgs :
          Resume(RelayScan(Failed(CallErrorEvents(events, MainRole, exc), exc),
                           normalized, round_idx, item_idx + 1,
                           Append(refreshed,
                                  AgentOutput(MainRole, UnavailableAfterPeerText(MainRole, exc))),
                           inbox))
    /\ UNCHANGED <<config, aside, task, planner_out, coder_out, critic_out, summary,
                   run_outcome, report>>

\* the coder call of rework round r
ReworkFrame(evs, r, summary_text) ==
    [Frame EXCEPT !.pc = "rework_coder", !.events = evs, !.round_idx = r, !.role = "coder",
                  !.user = FeedbackPrompt(r, summary_text, user_prompt)]

\* the rework loop entered in either mode
ReworkEnabled_AnyMode == coordinator_rework_rounds > 0

\* if self.execution_mode == "sequential" and self.coordinator_rework_rounds > 0
ReworkEnabled == execution_mode = "sequential" /\ coordinator_rework_rounds > 0

\* summary = await self._call_agent(... "summarizer" ...): the first merge
MergeReturn ==
    /\ MainSleeping("merge_call")
    /\ summary' = AgentOutput("summarizer", MainText)
    /\ IF ReworkEnabled
       THEN /\ Resume(ReworkFrame(CallDoneEvents(events, "summarizer", MainText), 0, MainText))
            /\ UNCHANGED <<run_outcome, report>>
       ELSE /\ RunReturns(CallDoneEvents(events, "summarizer", MainText), MainText)
            /\ UNCHANGED <<relayLocals, requests, fanout_done>>
    /\ UNCHANGED <<config, aside, task, planner_out, coder_out, critic_out>>

\* the first merge call guarded like a fan-out call: a placeholder summary
MergeRaise_Placeholder ==
    /\ MainInFlight("merge_call")
    /\ \E exc \in ErrorMsgs :
          /\ requests' = Answered(requests, call["main"].req, "error", exc)
          /\ summary' = AgentOutput("summarizer", UnavailableText("summarizer", exc))
          /\ RunReturns(CallErrorEvents(events, "summarizer", exc),
                        UnavailableText("summarizer", exc))
    /\ UNCHANGED <<config, aside, task, planner_out, coder_out, critic_out, relayLocals,
                   fanout_done>>

\* the first merge call raises: nothing in run() catches it
MergeRaise ==
    /\ MainInFlight("merge_call")
    /\ \E exc \in ErrorMsgs : RunRaises(exc)
    /\ UNCHANGED <<config, aside, task, locals, fanout_done>>

\* rework: coder_rework = await self._call_agent(... "coder" ...), then the
\* merge input grows by one section and the summarizer is called again
ReworkCoderReturn ==
    /\ MainSleeping("rework_coder")
    /\ Resume([Frame EXCEPT !.pc = "rework_summarizer",
                            !.events = CallDoneEvents(events, "coder", MainText),
                            !.merged_input = ReworkMergedInput(merged_input, round_idx, MainText),
                            !.role = "summarizer",
                            !.user = ReworkMergedInput(merged_input, round_idx, MainText)])
    /\ UNCHANGED <<config, aside, task, planner_out, coder_out, critic_out, summary,
                   run_outcome, report>>

\* rework: the coder call raises: nothing in run() catches it
ReworkCoderRaise ==
    /\ MainInFlight("rework_coder")
    /\ \E exc \in ErrorMsgs : RunRaises(exc)
    /\ UNCHANGED <<config, aside, task, locals, fanout_done>>

\* the rework loop running one round too many
ReworkContinues_OneMore == round_idx + 1 <= coordinator_rework_rounds

\* `for round_idx in range(self.coordinator_rework_rounds)` has a next round
ReworkContinues == round_idx + 1 < coordinator_rework_rounds

\* rework: summary = await self._call_agent(... "summarizer" ...)
ReworkSummarizerReturn ==
    /\ MainSleeping("rework_summarizer")
    /\ summary' = AgentOutput("summarizer", MainText)
    /\ IF ReworkContinues
       THEN /\ Resume(ReworkFrame(CallDoneEvents(events, "summarizer", MainText),
                                  round_idx + 1, MainText))
            /\ UNCHANGED <<run_outcome, report>>
       ELSE /\ RunReturns(CallDoneEvents(events, "summarizer", MainText), MainText)
            /\ UNCHANGED <<relayLocals, requests, fanout_done>>
    /\ UNCHANGED <<config, aside, task, planner_out, coder_out, critic_out>>

\* rework: the summarizer call raises: nothing in run() catches it
ReworkSummarizerRaise ==
    /\ MainInFlight("rework_summarizer")
    /\ \E exc \in ErrorMsgs : RunRaises(exc)
    /\ UNCHANGED <<config, aside, task, locals, fanout_done>>

Next ==
    \/ NimGuidanceDisabled
    \/ RunFallback
    \/ RunSequentialStart
    \/ RunParallelStart
    \/ \E t \in TaskIds : TaskStart(t)
    \/ \E c \in Coroutines : BackendReply(c)
    \/ \E t \in TaskIds : TaskCallRaise(t)
    \/ \E t \in TaskIds : TaskCallReturn(t)
    \/ AwaitPlanner
    \/ AwaitCoder
    \/ SeqFanoutReturn
    \/ SeqFanoutRaise
    \/ CriticReturn
    \/ CriticRaise
    \/ VerifierReturn
    \/ VerifierRaise
    \/ RelayReturn
    \/ RelayRaise
    \/ MergeReturn
    \/ MergeRaise
    \/ ReworkCoderReturn
    \/ ReworkCoderRaise
    \/ ReworkSummarizerReturn
    \/ ReworkSummarizerRaise

Spec == Init /\ [][Next]_vars

\* ------------------------------- the same run under another observer
\* str(exc) of the exception the raising observer raises
ObserverError == "observer failed"

\* _nim_guidance with nim_orchestrator None and an observer that raises: the
\* first status_updater call raises out of _nim_guidance
ObserverRaisesDisabled ==
    /\ pc = "entry" /\ ~nim_enabled /\ ~ObserverWorks
    /\ pc' = "raised"
    /\ UNCHANGED <<config, aside, task, call, locals, events, requests, fanout_done,
                   run_outcome, report>>

\* run() with aiohttp None and an observer that raises: last_fanout is set,
\* the first status_callback call raises out of run(), and the status_updater
\* call of _nim_guidance's except branch raises out of _nim_guidance
ObserverRaisesFallback ==
    /\ pc = "entry" /\ nim_enabled /\ ~aiohttp_present /\ ~ObserverWorks
    /\ last_fanout' = FallbackFanout
    /\ run_outcome' = "raised"
    /\ pc' = "raised"
    /\ UNCHANGED <<config, aside, task, call, planner_out, coder_out, critic_out, normalized,
                   refreshed, inbox, round_idx, item_idx, merged_input, summary, events,
                   requests, fanout_done, report>>

\* run() with an observer that raises: planner's _call_agent raises at its
\* running event before it posts (in parallel mode so does coder's, in its
\* task); the except branch records the placeholder and its status_callback
\* call raises out of run(); so does the one of _nim_guidance's except branch
ObserverRaisesRun ==
    /\ pc = "entry" /\ nim_enabled /\ aiohttp_present /\ ~ObserverWorks
    /\ IF execution_mode = "parallel"
       THEN /\ task' = [t \in TaskIds |-> [st |-> "raised", val |-> ObserverError]]
            /\ planner_out' = AgentOutput("planner", UnavailableText("planner", ObserverError))
            /\ UNCHANGED normalized
       ELSE /\ normalized' = <<AgentOutput("planner", UnavailableText("planner", ObserverError))>>
            /\ UNCHANGED <<task, planner_out>>
    /\ run_outcome' = "raised"
    /\ pc' = "raised"
    /\ UNCHANGED <<config, aside, call, coder_out, critic_out, refreshed, inbox, round_idx,
                   item_idx, merged_input, summary, last_fanout, events, requests,
                   fanout_done, report>>

\* the observers the finished run is repeated under
OtherObservers == {"none", "raises"}

\* the run with the working observer is over: keep what it did, and start the
\* same input on a fresh orchestrator under another observer
TwinRestart ==
    /\ pc = "done" /\ ~first_run.set /\ status_callback = "ok"
    /\ first_run' = [set |-> TRUE, requests |-> requests, last_fanout |-> last_fanout,
                     report |-> report, run_outcome |-> run_outcome]
    /\ status_callback' \in OtherObservers
    /\ pc' = "entry"
    /\ task' = [t \in TaskIds |-> NoTask]
    /\ call' = [c \in Coroutines |-> IdleCall]
    /\ planner_out' = NoOutput /\ coder_out' = NoOutput /\ critic_out' = NoOutput
    /\ normalized' = <<>> /\ refreshed' = <<>> /\ inbox' = EmptyInbox
    /\ round_idx' = 0 /\ item_idx' = 0
    /\ merged_input' = "" /\ summary' = NoOutput /\ last_fanout' = <<>>
    /\ events' = <<>> /\ requests' = <<>> /\ fanout_done' = <<>>
    /\ run_outcome' = "none" /\ report' = NoReport
    /\ UNCHANGED <<nim_enabled, aiohttp_present, execution_mode, coordinator_rework_rounds,
                   peer_message_rounds, user_prompt, backend, fb_calls, ca, now, pm, rc, srv>>

\* the backend answers the repeated run as it answered the first one
ReplaysFirstRun ==
    first_run.set =>
        \A i \in DOMAIN requests' :
            (i <= Len(first_run.requests) /\ requests'[i].result # "pending") =>
                /\ requests'[i].result = first_run.requests[i].result
                /\ requests'[i].val = first_run.requests[i].val

\* a step of run() or _nim_guidance, of the first run or of the repeated one
TwinStep == Next /\ ReplaysFirstRun

\* largest NIM_COORDINATOR_REWORK_ROUNDS and NIM_PEER_MESSAGE_ROUNDS of the
\* runs that are repeated
MaxTwinReworkRounds == 0
MaxTwinPeerRounds == 1

InitTwin ==
    /\ nim_enabled \in BOOLEAN
    /\ aiohttp_present \in BOOLEAN
    /\ execution_mode \in {"sequential", "parallel"}
    /\ coordinator_rework_rounds \in 0..MaxTwinReworkRounds
    /\ peer_message_rounds \in 0..MaxTwinPeerRounds
    /\ status_callback = "ok"
    /\ user_prompt \in Evidence
    /\ backend = "plain"
    /\ RunIdle /\ last_fanout = <<>>
    /\ AsideIdle

NextTwin ==
    \/ TwinStep
    \/ TwinRestart
    \/ ObserverRaisesDisabled
    \/ ObserverRaisesFallback
    \/ ObserverRaisesRun

SpecTwin == InitTwin /\ [][NextTwin]_vars

\* ------------------------------------------------ _call_agent, on its own
\* the largest configured minimum visible duration, and the last tick of the
\* clock
MaxMinVisible == 2
MaxClock == 3

\* `if resp.status >= 400`
HttpErrorFrom == 400
\* body[:200] of the error message
ErrorBodyLen == 200

HttpStatuses == {200, 404, 500}

\* str(resp.status)
StatusStr(n) == CASE n = 200 -> "200" [] n = 404 -> "404" [] OTHER -> "500"

\* JSON values
JNull == [t |-> "null"]
JStr(str) == [t |-> "str", s |-> str]
JList(items) == [t |-> "list", items |-> items]
JDict(f) == [t |-> "dict", f |-> f]
EmptyDict == JDict([k \in {} |-> JNull])
NotJson == [t |-> "invalid"]

\* {"choices": [{"message": {"role": "assistant", "content": content}}]}
ChatCompletion(content) ==
    JDict([choices |-> JList(<< JDict([message |->
               JDict([role |-> JStr("assistant"), content |-> JStr(content)])]) >>)])

\* the response bodies the backend may send, by name
BodyNames ==
    {"chat", "blank", "empty", "no_choices", "empty_choices", "no_message", "no_content",
     "null_content", "json_list", "not_json"}

\* await resp.text()
RawBody(name) ==
    CASE name = "chat" -> "{\"choices\": [{\"message\": {\"role\": \"assistant\", \"content\": \"  use 230400\\n\"}}]}"
      [] name = "blank" -> "{\"choices\": [{\"message\": {\"role\": \"assistant\", \"content\": \" \\n\"}}]}"
      [] name = "empty" -> "{\"choices\": [{\"message\": {\"role\": \"assistant\", \"content\": \"\"}}]}"
      [] name = "no_choices" -> "{}"
      [] name = "empty_choices" -> "{\"choices\": []}"
      [] name = "no_message" -> "{\"choices\": [{}]}"
      [] name = "no_content" -> "{\"choices\": [{\"message\": {\"role\": \"assistant\"}}]}"
      [] name = "null_content" -> "{\"choices\": [{\"message\": {\"content\": null}}]}"
      [] name = "json_list" -> "[]"
      [] OTHER -> "<html>down</html>"

\* await resp.json(): NotJson stands for the exception it raises
JsonBody(name) ==
    CASE name = "chat" -> ChatCompletion("  use 230400\n")
      [] name = "blank" -> ChatCompletion(" \n")
      [] name = "empty" -> ChatCompletion("")
      [] name = "no_choices" -> EmptyDict
      [] name = "empty_choices" -> JDict([choices |-> JList(<<>>)])
      [] name = "no_message" -> JDict([choices |-> JList(<<EmptyDict>>)])
      [] name = "no_content" ->
             JDict([choices |-> JList(<< JDict([message |-> JDict([role |-> JStr("assistant")])]) >>)])
      [] name = "null_content" ->
             JDict([choices |-> JList(<< JDict([message |-> JDict([content |-> JNull])]) >>)])
      [] name = "json_list" -> JList(<<>>)
      [] OTHER -> NotJson

\* dict.get(key, default)
Get(d, key, default) == IF key \in DOMAIN d.f THEN d.f[key] ELSE default

Raised(exc) == [ok |-> FALSE, text |-> "", exc |-> exc]
Extracted(text) == [ok |-> TRUE, text |-> text, exc |-> ""]

\* data.get("choices", [{}])[0].get("message", {}).get("content", ""), with the
\* exception raised where a value has not the type the expression needs
ExtractContent(data) ==
    IF data.t = "invalid" THEN Raised("JSONDecodeError")
    ELSE IF data.t # "dict" THEN Raised("AttributeError: 'get'")
    ELSE LET choices == Get(data, "choices", JList(<<EmptyDict>>))
         IN  IF choices.t # "list" THEN Raised("TypeError: choices[0]")
             ELSE IF Len(choices.items) = 0 THEN Raised("IndexError: list index out of range")
             ELSE LET first == choices.items[1]
                  IN  IF first.t # "dict" THEN Raised("AttributeError: 'get'")
                      ELSE LET message == Get(first, "message", EmptyDict)
                           IN  IF message.t # "dict" THEN Raised("AttributeError: 'get'")
                               ELSE LET content == Get(message, "content", JStr(""))
                                    IN  IF content.t # "str"
                                        THEN Raised("AttributeError: 'strip'")
                                        ELSE Extracted(content.s)

\* what the `async with session.post(...)` block and the extraction make of a
\* response: the completion's content, or the exception
ReadResponse(status, body) ==
    IF status >= HttpErrorFrom
    THEN Raised("http " \o StatusStr(status) \o ": " \o Prefix(RawBody(body), ErrorBodyLen))
    ELSE ExtractContent(JsonBody(body))

\* the sleep that takes the time already elapsed instead of the remainder
SleepFor_Elapsed(elapsed, role_min) == IF elapsed < role_min THEN elapsed ELSE 0

\* `if elapsed < role_min: await asyncio.sleep(role_min - elapsed)`: the time
\* slept, 0 when the call does not sleep
SleepFor(elapsed, role_min) == IF elapsed < role_min THEN role_min - elapsed ELSE 0

TimedEvent(role, state, message) ==
    [role |-> role, state |-> state, message |-> message, at |-> now]

\* if status_callback is not None: status_callback(role, state, message)
CallEmit(state, message) ==
    IF ca.observer = "none" THEN ca.events
    ELSE Append(ca.events, TimedEvent(ca.role, state, message))

\* _call_agent is entered: the running event, then t0 = time.perf_counter(),
\* then the request is posted
CallAgentStart ==
    /\ ca.st = "idle"
    /\ \E role \in {"planner", "coder", "critic", "verifier", "summarizer"} :
       \E observer \in {"none", "ok"} :
       \E role_min \in 0..MaxMinVisible :
          ca' = [ca EXCEPT !.st = "inflight", !.role = role, !.observer = observer,
                           !.role_min = role_min, !.t0 = now,
                           !.events = IF observer = "none" THEN <<>>
                                      ELSE <<TimedEvent(role, "running", RunningMessage)>>]
    /\ UNCHANGED <<runVars, fb_calls, first_run, now, pm, rc, srv>>

\* time passes while the call waits for the backend or sleeps
Tick ==
    /\ ca.st \in {"inflight", "sleeping"}
    /\ now < MaxClock
    /\ now' = now + 1
    /\ UNCHANGED <<runVars, fb_calls, first_run, ca, pm, rc, srv>>

\* the response arrives: the call raises, or it has its text and either sleeps
\* out the rest of the minimum visible duration or emits done and returns
ResponseArrives ==
    /\ ca.st = "inflight"
    /\ \E status \in HttpStatuses : \E body \in BodyNames :
          LET got == ReadResponse(status, body)
              text == CompletionText(ca.role, got.text)
              nap == SleepFor(now - ca.t0, ca.role_min)
              seen == [ca EXCEPT !.status = status, !.body = body, !.arrived = now]
          IN  ca' = IF ~got.ok
                    THEN [seen EXCEPT !.st = "raised", !.exc = got.exc, !.finished = now]
                    ELSE IF nap > 0
                    THEN [seen EXCEPT !.st = "sleeping", !.text = text, !.wake = now + nap]
                    ELSE [seen EXCEPT !.st = "returned", !.text = text, !.finished = now,
                                      !.events = CallEmit("done", text)]
    /\ UNCHANGED <<runVars, fb_calls, first_run, now, pm, rc, srv>>

\* asyncio.sleep is over (no earlier than it was due): the done event and the
\* return of AgentOutput(role, text)
SleepEnds ==
    /\ ca.st = "sleeping"
    /\ now >= ca.wake
    /\ ca' = [ca EXCEPT !.st = "returned", !.finished = now,
                        !.events = CallEmit("done", ca.text)]
    /\ UNCHANGED <<runVars, fb_calls, first_run, now, pm, rc, srv>>

InitCallAgent ==
    /\ nim_enabled = TRUE /\ aiohttp_present = TRUE
    /\ execution_mode = "sequential"
    /\ coordinator_rework_rounds = 0 /\ peer_message_rounds = 0
    /\ status_callback = "none"
    /\ user_prompt \in Evidence
    /\ backend = "plain"
    /\ RunIdle /\ last_fanout = <<>>
    /\ AsideIdle

NextCallAgent ==
    \/ CallAgentStart
    \/ Tick
    \/ ResponseArrives
    \/ SleepEnds

SpecCallAgent == InitCallAgent /\ [][NextCallAgent]_vars

\* ------------------------------------------- _fallback_summary, standalone
\* the standalone invocations explored
MaxFallbackCalls == 2

RECURSIVE Repeat(_, _)
Repeat(s, n) ==
    IF n = 0 THEN ""
    ELSE IF n % 2 = 0 THEN LET half == Repeat(s, n \div 2) IN half \o half
    ELSE s \o Repeat(s, n - 1)

\* an evidence string of n characters
EvidenceOfLen(n) == SubSeq(Repeat("uart.log;", n), 1, n)

\* what the digest must leave out of an evidence longer than prompt[:160]
EvidenceTail == "<tail>"

\* the reasons handed to _fallback_summary: the fixed one of run(), and
\* str(exc) of the callers (empty for a timeout)
FallbackReasons == {"aiohttp missing", "http 500: down", ""}

\* the evidence handed to _fallback_summary: empty, short, one character
\* less than prompt[:160] keeps, exactly that long, and longer
FallbackEvidence ==
    {"", "case=uart_demo status=fail errors=2", EvidenceOfLen(DigestLen - 1),
     EvidenceOfLen(DigestLen), EvidenceOfLen(DigestLen) \o EvidenceTail}

\* orch._fallback_summary(reason, prompt): the method reads its two arguments
\* and assigns nothing
FallbackSummaryCall ==
    /\ Len(fb_calls) < MaxFallbackCalls
    /\ \E reason \in FallbackReasons : \E prompt \in FallbackEvidence :
          fb_calls' = Append(fb_calls, [reason |-> reason, prompt |-> prompt,
                                        text |-> FallbackSummary(reason, prompt)])
    /\ UNCHANGED <<runVars, first_run, ca, now, pm, rc, srv>>

\* an orchestrator on which run() is not executing: last_fanout is what the
\* constructor or an earlier fallback run left
InitFallbackSummary ==
    /\ nim_enabled = TRUE /\ aiohttp_present \in BOOLEAN
    /\ execution_mode = "sequential"
    /\ coordinator_rework_rounds = 0 /\ peer_message_rounds = 0
    /\ status_callback \in {"none", "ok"}
    /\ user_prompt \in Evidence
    /\ backend = "plain"
    /\ RunIdle /\ last_fanout \in {<<>>, FallbackFanout}
    /\ AsideIdle

NextFallbackSummary == FallbackSummaryCall

SpecFallbackSummary == InitFallbackSummary /\ [][NextFallbackSummary]_vars

\* ------------------------------- the relay, with roles that ask each other
\* largest NIM_PEER_MESSAGE_ROUNDS of the runs whose roles address each other
MaxRelayRounds == 2

\* a sequential run without rework against the backend whose roles address
\* each other
InitRelay ==
    /\ nim_enabled = TRUE /\ aiohttp_present = TRUE
    /\ execution_mode = "sequential"
    /\ coordinator_rework_rounds = 0
    /\ peer_message_rounds \in 0..MaxRelayRounds
    /\ status_callback \in {"none", "ok"}
    /\ user_prompt \in Evidence
    /\ backend = "peers"
    /\ RunIdle /\ last_fanout = <<>>
    /\ AsideIdle

NextRelay ==
    \/ RunSequentialStart
    \/ BackendReply("main")
    \/ SeqFanoutReturn
    \/ SeqFanoutRaise
    \/ RelayReturn
    \/ RelayRaise
    \/ MergeReturn
    \/ MergeRaise

SpecRelay == InitRelay /\ [][NextRelay]_vars

\* ------------------------------------ _collect_peer_messages, standalone
\* output texts handed to _collect_peer_messages: request lines with '@' and
\* with 'CALL' in several spellings, lines to the merge role and to an unknown
\* name, an empty request, a request not at the start of its line, near
\* misses of the pattern, and plain text
PeerTexts ==
    { "@coder: add crc\nCALL  Critic :  check risk",
      "call VERIFIER:recheck\n@summarizer: merge now\n@tester: run",
      "  @Planner : replan  \n\n@planner:\nnote @coder: no",
      "@coder: a: b\nCALLcoder: x\n@ coder: y\n@coderx: z",
      "plan: try 230400" }

\* self._collect_peer_messages(normalized) on a RoundState whose four texts
\* are drawn from PeerTexts
CollectCall ==
    /\ ~pm.set
    /\ \E texts \in [1..4 -> PeerTexts] :
          LET outputs == [k \in 1..4 |-> AgentOutput(FanoutRoles[k], texts[k])]
          IN  pm' = [set |-> TRUE, outputs |-> outputs, inbox |-> CollectPeerMessages(outputs)]
    /\ UNCHANGED <<runVars, fb_calls, first_run, ca, now, rc, srv>>

InitCollect ==
    /\ nim_enabled = TRUE /\ aiohttp_present = TRUE
    /\ execution_mode = "sequential"
    /\ coordinator_rework_rounds = 0 /\ peer_message_rounds = 0
    /\ status_callback = "none"
    /\ user_prompt \in Evidence
    /\ backend = "plain"
    /\ RunIdle /\ last_fanout = <<>>
    /\ AsideIdle

NextCollect == CollectCall

SpecCollect == InitCollect /\ [][NextCollect]_vars

\* ------------------------------------------------- a run that is scheduled
\* The event loop runs every coroutine that is ready and the backend answers
\* every request (every call completes, fails or times out: BackendReply), so
\* a step that can be taken is eventually taken.  CanStep is the enabling
\* condition of Next written out as a state predicate: the entry of
\* _nim_guidance, a created task the loop has not started yet, a call waiting
\* for the backend or for its coroutine to be resumed, and an await of run()
\* whose task has finished.
CanStep ==
    \/ pc = "entry"
    \/ \E t \in TaskIds : task[t].st = "created"
    \/ \E c \in Coroutines : call[c].st \in {"inflight", "sleeping"}
    \/ pc = "par_await_planner" /\ TaskFinished("planner")
    \/ pc = "par_await_coder" /\ TaskFinished("coder")

\* weak fairness of Next, with CanStep standing for its enabling condition:
\* either steps are taken again and again, or again and again none can be
Progress == []<><<TRUE>>_vars \/ []<>(~CanStep)

InitLive ==
    /\ nim_enabled \in BOOLEAN
    /\ aiohttp_present \in BOOLEAN
    /\ execution_mode \in {"sequential", "parallel"}
    /\ coordinator_rework_rounds \in 0..MaxReworkRounds
    /\ peer_message_rounds \in 0..MaxPeerRounds
    /\ status_callback \in {"none", "ok"}
    /\ user_prompt \in Evidence
    /\ backend \in {"plain", "peers"}
    /\ RunIdle /\ last_fanout = <<>>
    /\ AsideIdle

SpecLive == InitLive /\ [][Next]_vars /\ Progress

\* ----------------------------------------------- several rework rounds
\* largest NIM_COORDINATOR_REWORK_ROUNDS of the runs without relay
MaxReworkDepth == 2

\* a sequential run without relay, with up to MaxReworkDepth rework rounds
InitRework ==
    /\ nim_enabled = TRUE /\ aiohttp_present = TRUE
    /\ execution_mode = "sequential"
    /\ coordinator_rework_rounds \in 0..MaxReworkDepth
    /\ peer_message_rounds = 0
    /\ status_callback \in {"none", "ok"}
    /\ user_prompt \in Evidence
    /\ backend = "plain"
    /\ RunIdle /\ last_fanout = <<>>
    /\ AsideIdle

NextRework ==
    \/ RunSequentialStart
    \/ BackendReply("main")
    \/ SeqFanoutReturn
    \/ SeqFanoutRaise
    \/ MergeReturn
    \/ MergeRaise
    \/ ReworkCoderReturn
    \/ ReworkCoderRaise
    \/ ReworkSummarizerReturn
    \/ ReworkSummarizerRaise

SpecRework == InitRework /\ [][NextRework]_vars

\* ------------------------------------------------ run_case, on its own
\* largest `runs` of the invocations explored
MaxRuns == 3

HuntCases == {"framing_hunt", "parity_hunt", "signature_check"}

\* _guess_key(params): the first guess key the parameters hold, "" for None
GuessKey(params) ==
    IF "guess_baud" \in DOMAIN params THEN "guess_baud"
    ELSE IF "guess_frame" \in DOMAIN params THEN "guess_frame"
    ELSE IF "guess_parity" \in DOMAIN params THEN "guess_parity"
    ELSE IF "guess_magic" \in DOMAIN params THEN "guess_magic"
    ELSE ""

\* _target_key_for_guess(guess_key), "" for None
TargetKeyForGuess(g) ==
    CASE g = "guess_baud" -> "target_baud"
      [] g = "guess_frame" -> "target_frame"
      [] g = "guess_parity" -> "target_parity"
      [] g = "guess_magic" -> "target_magic"
      [] OTHER -> ""

\* _guess_value(params)
GuessValue(params) == IF GuessKey(params) = "" THEN "" ELSE params[GuessKey(params)]

\* _target_value(params)
TargetValue(params) ==
    LET g == GuessKey(params)
        t == TargetKeyForGuess(g)
    IN  IF g = "" \/ t = "" THEN ""
        ELSE IF t \notin DOMAIN params /\ g = "guess_baud" THEN "unknown"
        ELSE IF t \in DOMAIN params THEN params[t] ELSE ""

\* the guess key of a hunt case's parameters
CaseGuessKey(case_id) ==
    CASE case_id = "framing_hunt" -> "guess_frame"
      [] case_id = "parity_hunt" -> "guess_parity"
      [] case_id = "signature_check" -> "guess_magic"

\* initial_guess_frame, initial_guess_parity, initial_guess_magic (0x0BADF00D);
\* numbers are written by their decimal text
CaseInitialGuess(case_id) ==
    CASE case_id = "framing_hunt" -> "7E1"
      [] case_id = "parity_hunt" -> "none"
      [] case_id = "signature_check" -> "195948557"

\* the targets run_case may be started with: the configured default
\* (8N1, even, 0xC0FFEE42) or the one given as argument
CaseTargets(case_id) ==
    CASE case_id = "framing_hunt" -> {"8N1", "8E1"}
      [] case_id = "parity_hunt" -> {"even", "odd"}
      [] case_id = "signature_check" -> {"3237998146", "48879"}

\* the default a missing target key is replaced by in triage and planner
DefaultTarget(g) ==
    CASE g = "guess_frame" -> "8N1"
      [] g = "guess_parity" -> "none"
      [] g = "guess_magic" -> "3237998146"
      [] OTHER -> ""

\* params of a hunt case before the first run
InitialParams(case_id, target) ==
    (CaseGuessKey(case_id) :> CaseInitialGuess(case_id))
        @@ (TargetKeyForGuess(CaseGuessKey(case_id)) :> target)

\* a literal of a dict written in the report: a string or a number
StrLit(text) == [kind |-> "str", text |-> text]
IntLit(text) == [kind |-> "int", text |-> text]

KnownKeys ==
    {"guess_baud", "guess_frame", "guess_parity", "guess_magic", "target_baud",
     "target_frame", "target_parity", "target_magic", "uart_rate", "buffer_size"}
StrKeys == {"guess_frame", "guess_parity", "target_frame", "target_parity"}

AllDigits(text) ==
    Len(text) > 0 /\ \A i \in 1..Len(text) :
        Char(text, i) \in {"0", "1", "2", "3", "4", "5", "6", "7", "8", "9"}

\* str(val) never raises; int(val) raises for a string that is not a number
Coercible(key, lit) == key \in StrKeys \/ lit.kind = "int" \/ AllDigits(lit.text)

\* what parse_next_experiments keeps of one '- {...}' line: the known keys
\* with their values coerced; nothing when a coercion raises or no known key
\* is there
ParseItem(item) ==
    LET keys == DOMAIN item \cap KnownKeys
    IN  IF keys = {} \/ \E k \in keys : ~Coercible(k, item[k]) THEN <<>>
        ELSE << [k \in keys |-> item[k].text] >>

RECURSIVE ParseNextExperiments(_)
\* parse_next_experiments(summary_text), the report given by its dict lines
ParseNextExperiments(items) ==
    IF Len(items) = 0 THEN <<>>
    ELSE ParseItem(Head(items)) \o ParseNextExperiments(Tail(items))

\* the dict lines the agents' merged report may hold for a hunt with guess
\* key g: none, a guess, a guess with a target, a line without the guess
\* key before or instead of it, a line of unknown keys, a guess that is no
\* number
ReportLines(g) ==
    LET t == TargetKeyForGuess(g)
        lit(v) == IF g = "guess_magic" THEN IntLit(v) ELSE StrLit(v)
        vals == CASE g = "guess_frame" -> {"8N1", "7E1"}
                  [] g = "guess_parity" -> {"even", "none"}
                  [] OTHER -> {"3237998146", "195948557"}
    IN  { <<>>,
          << "uart_rate" :> IntLit("230400") >>,
          << "note" :> StrLit("keep runner only") >>,
          << g :> StrLit("n/a") >> }
        \cup { << g :> lit(v) >> : v \in vals }
        \cup { << "uart_rate" :> IntLit("230400"), g :> lit(v) >> : v \in vals }
        \cup { << (g :> lit(v)) @@ (t :> lit(w)) >> : v \in vals, w \in vals }

\* TriageAgent._fallback_next_experiments(params, analysis)
TriageNextExperiments(params, analysis) ==
    LET g == GuessKey(params)
        t == TargetKeyForGuess(g)
        target == IF t \in DOMAIN params THEN params[t] ELSE DefaultTarget(g)
    IN  CASE analysis = "pass" -> << params >>
          [] g = "guess_frame" ->
               << (g :> target) @@ (t :> target), (g :> "8N1") @@ (t :> target) >>
          [] g = "guess_parity" ->
               << (g :> target) @@ (t :> target), (g :> "none") @@ (t :> target) >>
          [] g = "guess_magic" -> << (g :> target) @@ (t :> target) >>
          [] OTHER -> <<>>

\* PlannerAgent.next_request(params, analysis, triage), for the hunts by
\* frame, parity and magic
PlannerNextRequest(params, analysis, triage) ==
    LET g == GuessKey(params)
        t == TargetKeyForGuess(g)
    IN  IF analysis # "pass" /\ g \in {"guess_frame", "guess_parity", "guess_magic"}
           /\ Len(triage) > 0
        THEN LET nxt == triage[1]
             IN  (g :> (IF g \in DOMAIN nxt THEN nxt[g] ELSE params[g]))
                 @@ (t :> (IF t \in DOMAIN nxt THEN nxt[t]
                           ELSE IF t \in DOMAIN params THEN params[t] ELSE DefaultTarget(g)))
        ELSE params

\* chosen = dict(match[0]); the target of params is copied when chosen has none
ChosenParams(params, chosen) ==
    LET t == TargetKeyForGuess(GuessKey(params))
    IN  IF t # "" /\ t \notin DOMAIN chosen /\ t \in DOMAIN params
        THEN chosen @@ (t :> params[t])
        ELSE chosen

\* params of the next run
NextParams(params, analysis, experiments, triage) ==
    IF analysis # "pass" /\ Len(experiments) > 0
    THEN LET g == GuessKey(params)
             HasGuess(x) == g \in DOMAIN x
             match == SelectSeq(experiments, HasGuess)
         IN  IF g # ""
             THEN IF Len(match) > 0 THEN ChosenParams(params, match[1])
                  ELSE PlannerNextRequest(params, analysis, triage)
             ELSE experiments[1]
    ELSE PlannerNextRequest(params, analysis, triage)

\* the statuses _nim_guidance may leave planner in (its last status event)
GuidanceLeaves == {"done", "error", "disabled"}

\* _set_agent for several roles at once
SetAgents(agents, upd) == [r \in DOMAIN agents |-> IF r \in DOMAIN upd THEN upd[r] ELSE agents[r]]

\* the row of a run
Row(run_index, status, params) ==
    [run |-> run_index, status |-> status, guess_value |-> GuessValue(params),
     target_value |-> TargetValue(params)]

\* the loop goes on after a run that passed
StopsOnPass_Never(analysis) == FALSE

\* `if analysis.pass_fail == "pass": ... break`
StopsOnPass(analysis) == analysis = "pass"

\* one iteration up to the analysis: the state of the run's start, the run
\* itself (runner.execute with the current params), the analysis of its log
RunIteration ==
    /\ rc.pc = "loop" /\ rc.run_index < rc.runs
    /\ \E analysis \in {"pass", "fail"} :
          rc' = [rc EXCEPT !.pc = "analyzed",
                           !.run_index = rc.run_index + 1,
                           !.executed = Append(rc.executed, rc.params),
                           !.analysis = analysis,
                           !.overall = [status |-> "running", current_run |-> rc.run_index + 1],
                           !.agents = [planner |-> "done", coder |-> "running",
                                       critic |-> "running", summarizer |-> "idle",
                                       verifier |-> "idle"]]
    /\ UNCHANGED <<runVars, fb_calls, first_run, ca, now, pm, srv>>

\* the rest of the iteration: triage, the agents' report, the row, and either
\* the break after a pass or the parameters of the next run
GuideIteration ==
    /\ rc.pc = "analyzed"
    /\ \E lines \in ReportLines(CaseGuessKey(rc.case_id)) : \E left \in GuidanceLeaves :
          LET triage == TriageNextExperiments(rc.params, rc.analysis)
              experiments == ParseNextExperiments(lines)
              row == Row(rc.run_index, rc.analysis, rc.params)
              agents == SetAgents(rc.agents,
                            [planner |-> left, coder |-> "done", critic |-> "done",
                             summarizer |-> "done", verifier |-> "done"])
          IN  IF StopsOnPass(rc.analysis)
              THEN rc' = [rc EXCEPT !.pc = "after_loop", !.guided = rc.guided + 1,
                                    !.agents = agents, !.rows = Append(rc.rows, row),
                                    !.solved = TRUE, !.solved_run = rc.run_index,
                                    !.overall = [status |-> "completed",
                                                 current_run |-> rc.run_index]]
              ELSE rc' = [rc EXCEPT !.pc = "loop", !.guided = rc.guided + 1,
                                    !.agents = agents, !.rows = Append(rc.rows, row),
                                    !.overall = [status |-> "running",
                                                 current_run |-> rc.run_index],
                                    !.params = NextParams(rc.params, rc.analysis,
                                                          experiments, triage)]
    /\ UNCHANGED <<runVars, fb_calls, first_run, ca, now, pm, srv>>

\* after the loop: the overall status, no agent left running, the rows
RunCaseReturn ==
    /\ \/ rc.pc = "after_loop"
       \/ rc.pc = "loop" /\ rc.run_index >= rc.runs
    /\ rc' = [rc EXCEPT !.pc = "returned",
                        !.overall = [status |-> "completed",
                                     current_run |-> IF rc.solved THEN rc.solved_run
                                                     ELSE Len(rc.rows)],
                        !.agents = [r \in DOMAIN rc.agents |->
                                       IF rc.agents[r] = "running" THEN "done"
                                       ELSE rc.agents[r]]]
    /\ UNCHANGED <<runVars, fb_calls, first_run, ca, now, pm, srv>>

\* run_case called for a hunt case: the state of _init_state, the parameters
\* built from the configuration and the selected target
InitRunCase ==
    /\ nim_enabled = TRUE /\ aiohttp_present = TRUE
    /\ execution_mode = "sequential"
    /\ coordinator_rework_rounds = 0 /\ peer_message_rounds = 0
    /\ status_callback = "none"
    /\ user_prompt \in Evidence
    /\ backend = "plain"
    /\ RunIdle /\ last_fanout = <<>>
    /\ fb_calls = <<>> /\ first_run = NoFirstRun /\ ca = IdleAgentCall /\ now = 0
    /\ pm = NoCollect /\ srv = NoServer
    /\ \E case_id \in HuntCases : \E runs \in 0..MaxRuns : \E target \in CaseTargets(case_id) :
          rc = [pc |-> "loop", case_id |-> case_id, runs |-> runs, run_index |-> 0,
                params |-> InitialParams(case_id, target), selected_target |-> target,
                executed |-> <<>>, analysis |-> "none", rows |-> <<>>,
                solved |-> FALSE, solved_run |-> 0, guided |-> 0,
                overall |-> [status |-> "idle", current_run |-> 0],
                agents |-> [r \in {"planner", "coder", "critic", "summarizer", "verifier"} |->
                               "idle"]]

NextRunCase == RunIteration \/ GuideIteration \/ RunCaseReturn

SpecRunCase == InitRunCase /\ [][NextRunCase]_vars

\* ------------------------------------------------ the dashboard server
\* ThreadingHTTPServer runs every request in a thread of its own; the
\* handlers share PROCESS, LOCK, the state file and the log file.  The
\* orchestrator child writes the state file and the log while it runs.

\* request handler threads at work at the same time
MaxHandlers == 2
\* POST requests accepted in all
MaxRequests == 4

Handlers == 1..MaxHandlers

\* what a POST /api/start body may be: one that parses, one whose parsing
\* raises (no JSON, runs that is no number), real mode without PICO_SDK_PATH
StartPayloads == {"ok", "malformed", "real_no_sdk"}

\* the contents of STATE_PATH by overall.status and by who wrote them
StateFile(status, writer) == [status |-> status, writer |-> writer]
MissingState == StateFile("missing", "nobody")
init_state == StateFile("running", "start")
fail_state == StateFile("failed", "start")
reset_state == StateFile("idle", "reset")

IdleHandler == [pc |-> "idle", payload |-> "none", seen |-> 0, code |-> 0]

\* `PROCESS is not None and PROCESS.poll() is None`
Running == srv.PROCESS # 0 /\ srv.PROCESS \in srv.alive

\* the handler answers with a status code and its thread ends
Respond(t, code) == [srv.thr EXCEPT ![t].pc = "idle", ![t].code = code]

\* the handler goes on at another place
Goto(t, pc_) == [srv.thr EXCEPT ![t].pc = pc_]

\* do_POST for /api/start up to the lock: the body is read and parsed; a body
\* that raises leads to the except clause
PostStart(t) ==
    /\ srv.thr[t].pc = "idle" /\ srv.requests < MaxRequests
    /\ \E payload \in StartPayloads :
          srv' = [srv EXCEPT !.requests = srv.requests + 1,
                             !.thr[t] = [pc |-> IF payload = "malformed" THEN "start_except"
                                                ELSE "start_lock",
                                         payload |-> payload,
                                         seen |-> IF Running THEN srv.PROCESS ELSE 0,
                                         code |-> 0]]
    /\ UNCHANGED <<runVars, fb_calls, first_run, ca, now, pm, rc>>

\* `with LOCK:` of _handle_start: 409 for a run in progress, 400 for real
\* mode without the SDK (both leave the lock at once), else the lock is kept
StartEnter(t) ==
    /\ srv.thr[t].pc = "start_lock" /\ srv.LOCK = 0
    /\ srv' = IF Running THEN [srv EXCEPT !.thr = Respond(t, 409)]
              ELSE IF srv.thr[t].payload = "real_no_sdk"
                   THEN [srv EXCEPT !.thr = Respond(t, 400)]
                   ELSE [srv EXCEPT !.LOCK = t, !.thr = Goto(t, "start_write_state")]
    /\ UNCHANGED <<runVars, fb_calls, first_run, ca, now, pm, rc>>

\* STATE_PATH.write_text(init_state)
StartWriteState(t) ==
    /\ srv.thr[t].pc = "start_write_state"
    /\ srv' = [srv EXCEPT !.STATE_PATH = init_state, !.thr = Goto(t, "start_write_log")]
    /\ UNCHANGED <<runVars, fb_calls, first_run, ca, now, pm, rc>>

\* LOG_PATH.write_text("")
StartWriteLog(t) ==
    /\ srv.thr[t].pc = "start_write_log"
    /\ srv' = [srv EXCEPT !.LOG_PATH = <<>>, !.thr = Goto(t, "start_popen")]
    /\ UNCHANGED <<runVars, fb_calls, first_run, ca, now, pm, rc>>

\* LOG_PATH.open and subprocess.Popen: the child runs and PROCESS is it, or
\* an exception leaves the lock for the except clause
StartPopen(t) ==
    /\ srv.thr[t].pc = "start_popen"
    /\ \E ok \in BOOLEAN :
          srv' = IF ok
                 THEN [srv EXCEPT !.PROCESS = srv.spawned + 1,
                                  !.spawned = srv.spawned + 1,
                                  !.alive = srv.alive \cup {srv.spawned + 1},
                                  !.LOCK = 0, !.thr = Goto(t, "start_respond")]
                 ELSE [srv EXCEPT !.LOCK = 0, !.thr = Goto(t, "start_except")]
    /\ UNCHANGED <<runVars, fb_calls, first_run, ca, now, pm, rc>>

\* the answer of a start that was accepted
StartRespond(t) ==
    /\ srv.thr[t].pc = "start_respond"
    /\ srv' = [srv EXCEPT !.thr = Respond(t, 200)]
    /\ UNCHANGED <<runVars, fb_calls, first_run, ca, now, pm, rc>>

\* `except Exception as exc:` of _handle_start
StartExcept(t) ==
    /\ srv.thr[t].pc = "start_except"
    /\ srv' = [srv EXCEPT !.STATE_PATH = fail_state, !.thr = Respond(t, 500)]
    /\ UNCHANGED <<runVars, fb_calls, first_run, ca, now, pm, rc>>

\* do_POST for /api/reset up to the lock
PostReset(t) ==
    /\ srv.thr[t].pc = "idle" /\ srv.requests < MaxRequests
    /\ srv' = [srv EXCEPT !.requests = srv.requests + 1,
                          !.thr[t] = [pc |-> "reset_lock", payload |-> "none",
                                      seen |-> IF Running THEN srv.PROCESS ELSE 0,
                                      code |-> 0]]
    /\ UNCHANGED <<runVars, fb_calls, first_run, ca, now, pm, rc>>

\* `with LOCK:` of _handle_reset: 409 for a run in progress, else the lock is
\* left and the files are written after it
ResetEnter(t) ==
    /\ srv.thr[t].pc = "reset_lock" /\ srv.LOCK = 0
    /\ srv' = IF Running THEN [srv EXCEPT !.thr = Respond(t, 409)]
              ELSE [srv EXCEPT !.thr = Goto(t, "reset_write_state")]
    /\ UNCHANGED <<runVars, fb_calls, first_run, ca, now, pm, rc>>

\* STATE_PATH.write_text(reset_state)
ResetWriteState(t) ==
    /\ srv.thr[t].pc = "reset_write_state"
    /\ srv' = [srv EXCEPT !.STATE_PATH = reset_state, !.thr = Goto(t, "reset_write_log")]
    /\ UNCHANGED <<runVars, fb_calls, first_run, ca, now, pm, rc>>

\* LOG_PATH.write_text("") and the answer
ResetWriteLog(t) ==
    /\ srv.thr[t].pc = "reset_write_log"
    /\ srv' = [srv EXCEPT !.LOG_PATH = <<>>, !.thr = Respond(t, 200)]
    /\ UNCHANGED <<runVars, fb_calls, first_run, ca, now, pm, rc>>

\* the child writes its state (_write_state with --state-file)
ChildWriteState(p) ==
    /\ p \in srv.alive
    /\ \E status \in {"running", "completed"} :
          /\ srv.STATE_PATH # StateFile(status, "child")
          /\ srv' = [srv EXCEPT !.STATE_PATH = StateFile(status, "child")]
    /\ UNCHANGED <<runVars, fb_calls, first_run, ca, now, pm, rc>>

\* the child prints to the log it was given (opened for appending)
ChildLog(p) ==
    /\ p \in srv.alive
    /\ \A i \in DOMAIN srv.LOG_PATH : srv.LOG_PATH[i] # p
    /\ srv' = [srv EXCEPT !.LOG_PATH = Append(srv.LOG_PATH, p)]
    /\ UNCHANGED <<runVars, fb_calls, first_run, ca, now, pm, rc>>

\* the child ends
ChildExit(p) ==
    /\ p \in srv.alive
    /\ srv' = [srv EXCEPT !.alive = srv.alive \ {p}]
    /\ UNCHANGED <<runVars, fb_calls, first_run, ca, now, pm, rc>>

\* the server after main(): no child yet, the files of an earlier session or
\* none
InitDashboard ==
    /\ nim_enabled = TRUE /\ aiohttp_present = TRUE
    /\ execution_mode = "sequential"
    /\ coordinator_rework_rounds = 0 /\ peer_message_rounds = 0
    /\ status_callback = "none"
    /\ user_prompt \in Evidence
    /\ backend = "plain"
    /\ RunIdle /\ last_fanout = <<>>
    /\ fb_calls = <<>> /\ first_run = NoFirstRun /\ ca = IdleAgentCall /\ now = 0
    /\ pm = NoCollect /\ rc = NoRunCase
    /\ \E state \in {MissingState, StateFile("completed", "child")} :
          srv = [PROCESS |-> 0, alive |-> {}, spawned |-> 0, LOCK |-> 0,
                 STATE_PATH |-> state, LOG_PATH |-> <<>>, requests |-> 0,
                 thr |-> [t \in Handlers |-> IdleHandler]]

NextDashboard ==
    \/ \E t \in Handlers :
          \/ PostStart(t) \/ StartEnter(t) \/ StartWriteState(t) \/ StartWriteLog(t)
          \/ StartPopen(t) \/ StartRespond(t) \/ StartExcept(t)
          \/ PostReset(t) \/ ResetEnter(t) \/ ResetWriteState(t) \/ ResetWriteLog(t)
    \/ \E p \in 1..MaxRequests : ChildWriteState(p) \/ ChildLog(p) \/ ChildExit(p)

SpecDashboard == InitDashboard /\ [][NextDashboard]_vars

\* ================================================================= claims
\* run() went past its aiohttp check: a run that talks to the backend
RealRun == nim_enabled /\ aiohttp_present
Observed == status_callback = "ok"

EventsOf(role, states) == {i \in DOMAIN events : events[i].role = role /\ events[i].state \in states}
RequestsOf(role) == {i \in DOMAIN requests : requests[i].role = role}
Terminal == {"done", "error", "disabled", "fallback"}

\* the position of the first event of role in one of states, 0 when none
FirstEvent(role, states) ==
    IF EventsOf(role, states) = {} THEN 0
    ELSE CHOOSE i \in EventsOf(role, states) : \A j \in EventsOf(role, states) : i <= j

\* the position of the first summarizer request, 0 when none
FirstMerge ==
    IF RequestsOf("summarizer") = {} THEN 0
    ELSE CHOOSE i \in RequestsOf("summarizer") : \A j \in RequestsOf("summarizer") : i <= j

\* C1: in both modes a fan-out call that raises does not stop the fan-out:
\* the run never ends before all four roles were requested once (the first
\* four requests, one per role) and the summarizer was requested; the entry of
\* a failed role is the text "<role> unavailable: <message>", and the observer
\* (when there is one) got exactly one error event for it.
C1_FanoutIsolation ==
    /\ (pc = "done" /\ RealRun) => (fanout_done # <<>> /\ FirstMerge > 0)
    /\ fanout_done # <<>> =>
          /\ Len(fanout_done) = 4 /\ Len(requests) >= 5
          /\ \A k \in 1..4 :
                /\ requests[k].role = FanoutRoles[k]
                /\ requests[k].result # "pending"
                /\ requests[k].result = "error" =>
                      /\ fanout_done[k] = [role |-> FanoutRoles[k],
                                           text |-> FanoutRoles[k] \o " unavailable: " \o requests[k].val]
                      /\ Len(requests) = 5 =>
                            Cardinality(EventsOf(FanoutRoles[k], {"error"}))
                                = (IF Observed THEN 1 ELSE 0)

\* coder and verifier failed in a parallel run that went on to return a report
C1_Witness ==
    /\ execution_mode = "parallel" /\ Observed /\ pc = "done" /\ run_outcome = "returned"
    /\ Len(requests) >= 5
    /\ requests[1].result = "ok" /\ requests[2].result = "error"
    /\ requests[3].result = "ok" /\ requests[4].result = "error"

\* C3: in parallel mode critic is requested only when planner_task and
\* coder_task have both finished and run() holds both outputs, and verifier
\* only when critic's call is over too; for the observer, critic's first
\* running event comes after a terminal event of planner and of coder, and
\* verifier's after a terminal event of planner, coder and critic.
C3_ParallelDependencies ==
    (execution_mode = "parallel" /\ RealRun) =>
        /\ Len(requests) >= 3 =>
              /\ requests[3].role = "critic"
              /\ \A t \in TaskIds : task[t].st \in {"done", "raised"} /\ call[t].st = "idle"
              /\ requests[1].result # "pending" /\ requests[2].result # "pending"
              /\ planner_out # NoOutput /\ coder_out # NoOutput
        /\ Len(requests) >= 4 =>
              /\ requests[4].role = "verifier"
              /\ requests[3].result # "pending"
              /\ critic_out # NoOutput
        /\ Observed =>
              /\ \A r \in {"planner", "coder"} :
                    FirstEvent("critic", {"running"}) > 0 =>
                        /\ FirstEvent(r, {"done", "error"}) > 0
                        /\ FirstEvent(r, {"done", "error"}) < FirstEvent("critic", {"running"})
              /\ \A r \in {"planner", "coder", "critic"} :
                    FirstEvent("verifier", {"running"}) > 0 =>
                        /\ FirstEvent(r, {"done", "error"}) > 0
                        /\ FirstEvent(r, {"done", "error"}) < FirstEvent("verifier", {"running"})

\* verifier is running after coder finished before planner, planner failed
C3_Witness ==
    /\ execution_mode = "parallel" /\ Observed /\ pc = "par_verifier"
    /\ Len(requests) >= 4
    /\ requests[1].result = "error" /\ requests[2].result = "ok"
    /\ FirstEvent("coder", {"done"}) < FirstEvent("planner", {"error"})

\* C4: in parallel mode critic's user input contains the evidence and the
\* texts the fan-out recorded for planner and coder, and verifier's contains
\* the evidence and the texts recorded for planner, coder and critic, each
\* right after its section label.
C4_ParallelInputs ==
    (execution_mode = "parallel" /\ fanout_done # <<>>) =>
        /\ StartsWith(requests[3].user, user_prompt)
        /\ Contains(requests[3].user, "[planner_experiments]\n" \o fanout_done[1].text)
        /\ Contains(requests[3].user, "[coder_proposal]\n" \o fanout_done[2].text)
        /\ StartsWith(requests[4].user, user_prompt)
        /\ Contains(requests[4].user, "[planner]\n" \o fanout_done[1].text)
        /\ Contains(requests[4].user, "[coder]\n" \o fanout_done[2].text)
        /\ Contains(requests[4].user, "[critic]\n" \o fanout_done[3].text)

\* the fan-out is over with planner failed and coder and critic succeeded
C4_Witness ==
    /\ execution_mode = "parallel" /\ fanout_done # <<>>
    /\ requests[1].result = "error" /\ requests[2].result = "ok" /\ requests[3].result = "ok"
    /\ fanout_done[1].text = "planner unavailable: http 500: down"
    /\ fanout_done[2].text = "coder: use 230400"
    /\ fanout_done[3].text = "@coder: add crc"

\* the requests of role made after the first summarizer request
AfterFirstMerge(role) == {i \in RequestsOf(role) : FirstMerge > 0 /\ i > FirstMerge}

\* a coder call of a rework round raised
ReworkCoderFailed == \E i \in AfterFirstMerge("coder") : requests[i].result = "error"

\* the state of the last event of role ("" when it has none)
LastStateOf(role) ==
    IF EventsOf(role, Terminal \cup {"running"}) = {} THEN ""
    ELSE events[CHOOSE i \in EventsOf(role, Terminal \cup {"running"}) :
                    \A j \in EventsOf(role, Terminal \cup {"running"}) : j <= i].state

\* C2: a failure of the coder call of a rework round is absorbed: it does not
\* leave run(), coder's last event is its error event, and when the caller has
\* its report run() has returned it.
C2_ReworkCoderFailureAbsorbed ==
    ReworkCoderFailed =>
        /\ run_outcome # "raised"
        /\ Observed => LastStateOf("coder") = "error"
        /\ pc = "done" => run_outcome = "returned"

\* C5: when the caller has its report, every role got exactly one terminal
\* event per request made for it.
C5_OneTerminalPerInvocation ==
    (pc = "done" /\ RealRun /\ Observed) =>
        \A r \in {"planner", "coder", "critic", "verifier", "summarizer"} :
            Cardinality(EventsOf(r, Terminal)) = Cardinality(RequestsOf(r))

\* the events emitted inside run(): not those of _nim_guidance (the disabled
\* events, and the summarizer error it reports when run() raised)
RunEvents ==
    IF ~nim_enabled THEN <<>>
    ELSE IF run_outcome = "raised" /\ Observed THEN SubSeq(events, 1, Len(events) - 1)
    ELSE events

\* C6: inside run(), every done, error or fallback event of a role comes
\* after a running event of that role with no terminal event of the role in
\* between.
C6_RunningBeforeTerminal ==
    \A i \in DOMAIN RunEvents :
        RunEvents[i].state \in {"done", "error", "fallback"} =>
            \E j \in 1..(i - 1) :
                /\ RunEvents[j].role = RunEvents[i].role
                /\ RunEvents[j].state = "running"
                /\ \A k \in (j + 1)..(i - 1) :
                      ~(RunEvents[k].role = RunEvents[i].role /\ RunEvents[k].state \in Terminal)

\* parallel mode: coder's done event came before planner's
C6_Witness ==
    /\ execution_mode = "parallel" /\ Observed
    /\ FirstEvent("planner", {"done"}) > 0
    /\ FirstEvent("coder", {"done"}) > 0
    /\ FirstEvent("coder", {"done"}) < FirstEvent("planner", {"done"})

AllSpace(s) == \A i \in 1..Len(s) : IsSpace(Char(s, i))

\* the line has the form '@role: msg' or 'CALL role: msg' (case-insensitive)
\* for a fan-out role and a non-empty msg: a is the length of the prefix and
\* c the position of the colon
IsRequestLine(raw) ==
    LET s == Strip(raw)
    IN  /\ Prefix(s, 1) = "@" \/ Lower(Prefix(s, 4)) = "call"
        /\ \E role \in FanoutRoleSet : \E a \in 1..Len(s) : \E c \in 1..Len(s) :
            /\ \/ a = 1 /\ Char(s, 1) = "@"
               \/ a >= 5 /\ Lower(SubSeq(s, 1, 4)) = "call" /\ AllSpace(SubSeq(s, 5, a))
            /\ a + Len(role) < c
            /\ Lower(SubSeq(s, a + 1, a + Len(role))) = role
            /\ AllSpace(SubSeq(s, a + Len(role) + 1, c - 1))
            /\ Char(s, c) = ":"
            /\ Strip(SubSeq(s, c + 1, Len(s))) # ""

HasRequestLine(text) ==
    /\ Contains(text, "@") \/ Contains(Lower(text), "call")
    /\ \E i \in DOMAIN SplitLines(text) : IsRequestLine(SplitLines(text)[i])

NoRequestLines(outputs) == \A k \in DOMAIN outputs : ~HasRequestLine(outputs[k].text)

\* the fan-out is over and run() is suspended in the first call after it
AfterFanoutCall == fanout_done # <<>> /\ Len(requests) = 5 /\ requests[5].result = "pending"

\* C7: when no output of the fan-out holds a request line, the relay does
\* nothing whatever peer_message_rounds is: no relay call is made (the call
\* after the fan-out is the merge, on the unchanged outputs), RoundState stays
\* what the fan-out left, and the observer sees nothing between the fan-out's
\* eight events and the summarizer's running event.
C7_RelayNoOp ==
    (AfterFanoutCall /\ NoRequestLines(fanout_done)) =>
        /\ pc # "relay_call"
        /\ requests[5].role = "summarizer"
        /\ requests[5].user = JoinWith([k \in 1..4 |->
               "[" \o FanoutRoles[k] \o "]\n" \o fanout_done[k].text], "\n\n")
        /\ normalized = fanout_done
        /\ last_fanout = fanout_done
        /\ refreshed = <<>>
        /\ IF Observed
           THEN Len(events) = 9 /\ events[9] = StatusEvent("summarizer", "running", RunningMessage)
           ELSE events = <<>>

\* two relay rounds allowed, coder failed, no request line: the merge is on
C7_Witness ==
    /\ peer_message_rounds >= 1 /\ Observed
    /\ AfterFanoutCall /\ NoRequestLines(fanout_done)
    /\ fanout_done[1].text = "coder: use 230400"
    /\ requests[2].result = "error"
    /\ pc = "merge_call"

\* the rounds the rework loop is entered with
ReworkRounds == IF execution_mode = "sequential" THEN coordinator_rework_rounds ELSE 0

C9_Scenario ==
    /\ pc = "done" /\ RealRun
    /\ execution_mode = "sequential" /\ coordinator_rework_rounds = 0
    /\ Len(requests) >= 4
    /\ \A k \in 1..4 : requests[k].result = "ok" /\ Strip(requests[k].val) # ""

\* what _call_agent makes of the reply to request i
OutputOfRequest(i) ==
    IF Strip(requests[i].val) = "" THEN requests[i].role \o " produced empty output"
    ELSE Strip(requests[i].val)

\* C9 as stated: in that scenario exactly 5 calls are made and the report is
\* the merge role's output.
C9_FiveCallsAsStated ==
    C9_Scenario =>
        /\ Len(requests) = 5
        /\ requests[5].result = "ok" => report.text = summary.text

\* C9 amended: in that scenario, when no fan-out output holds a request line
\* (or peer_message_rounds = 0), exactly 5 calls are made, planner, coder,
\* critic, verifier, summarizer; and when the merge call succeeds run()
\* returns its output as the report.
C9_FiveCalls ==
    (C9_Scenario /\ (peer_message_rounds = 0 \/ NoRequestLines(fanout_done))) =>
        /\ Len(requests) = 5
        /\ \A k \in 1..4 : requests[k].role = FanoutRoles[k]
        /\ requests[5].role = "summarizer"
        /\ requests[5].result = "ok" =>
              /\ run_outcome = "returned"
              /\ report = [set |-> TRUE, text |-> OutputOfRequest(5)]
              /\ summary = [role |-> "summarizer", text |-> report.text]

\* the scenario with relay rounds allowed and a merge that succeeded
C9_Witness ==
    /\ C9_Scenario /\ peer_message_rounds >= 1 /\ NoRequestLines(fanout_done)
    /\ Len(requests) = 5 /\ requests[5].result = "ok"
    /\ report.text = "- {'guess_baud': 230400}"

UartDemoEvidence == "case=uart_demo status=fail errors=2"

\* the role and state of every event, in order
EventKinds == [i \in DOMAIN events |-> <<events[i].role, events[i].state>>]

\* the observer saw running and then fallback for each fan-out role, and after
\* them one summarizer fallback event
FallbackEventPattern ==
    /\ \A r \in FanoutRoleSet :
          /\ Cardinality(EventsOf(r, {"running"})) = 1
          /\ Cardinality(EventsOf(r, {"fallback"})) = 1
          /\ Cardinality(EventsOf(r, {"done", "error", "disabled"})) = 0
          /\ FirstEvent(r, {"running"}) < FirstEvent(r, {"fallback"})
          /\ FirstEvent(r, {"fallback"}) < FirstEvent("summarizer", {"fallback"})
    /\ Cardinality(EventsOf("summarizer", {"fallback"})) = 1
    /\ Cardinality(EventsOf("summarizer", {"done", "error", "disabled"})) = 0

\* no request was ever answered: the client is missing or every call failed
BackendUnreachable == \A i \in DOMAIN requests : requests[i].result = "error"

\* C10 as stated: with the uart_demo evidence and the backend unreachable,
\* run() returns a text with the 'NIM unavailable' marker and the evidence
\* digest, and the observer sees running then fallback for each fan-out role
\* and then one summarizer fallback event.
C10_UnreachableAsStated ==
    (pc = "done" /\ nim_enabled /\ user_prompt = UartDemoEvidence /\ BackendUnreachable) =>
        /\ run_outcome = "returned"
        /\ Contains(report.text, "NIM unavailable")
        /\ Contains(report.text, "Context digest: " \o UartDemoEvidence)
        /\ Observed => FallbackEventPattern

\* C10 amended: with the uart_demo evidence and the HTTP client missing,
\* run() makes no request and returns a text with the 'NIM unavailable'
\* marker and the evidence digest; the observer sees running for planner,
\* coder, critic, verifier, then fallback for each, then summarizer running
\* and summarizer fallback.
C10_MissingClientFallback ==
    (pc = "done" /\ nim_enabled /\ ~aiohttp_present /\ user_prompt = UartDemoEvidence) =>
        /\ run_outcome = "returned"
        /\ requests = <<>>
        /\ Contains(report.text, "NIM unavailable (aiohttp missing)")
        /\ Contains(report.text, "Context digest: " \o UartDemoEvidence)
        /\ Observed =>
              /\ FallbackEventPattern
              /\ EventKinds = << <<"planner", "running">>, <<"coder", "running">>,
                                 <<"critic", "running">>, <<"verifier", "running">>,
                                 <<"planner", "fallback">>, <<"coder", "fallback">>,
                                 <<"critic", "fallback">>, <<"verifier", "fallback">>,
                                 <<"summarizer", "running">>, <<"summarizer", "fallback">> >>
        /\ ~Observed => events = <<>>

\* the fallback run with an observer is over
C10_Witness ==
    /\ pc = "done" /\ nim_enabled /\ ~aiohttp_present /\ Observed
    /\ user_prompt = UartDemoEvidence /\ run_outcome = "returned"
    /\ Len(events) = 10

\* C11: when aiohttp is missing run() posts no request, stores the four fixed
\* fallback outputs as the fan-out, and returns the fallback report with the
\* reason "aiohttp missing" and the digest of the evidence; an observer gets
\* running for planner, coder, critic, verifier, then one fallback event per
\* role carrying its fixed output, in the same order, then summarizer running
\* and summarizer fallback; with no observer nothing is emitted and the text
\* is the same.
C11_FallbackShortCircuit ==
    (pc = "done" /\ nim_enabled /\ ~aiohttp_present) =>
        /\ requests = <<>>
        /\ run_outcome = "returned"
        /\ [k \in 1..Len(last_fanout) |-> last_fanout[k].role] = FanoutRoles
        /\ \A k \in 1..4 : StartsWith(last_fanout[k].text, "Fallback: ")
        /\ report.set
        /\ Contains(report.text, "- NIM unavailable (aiohttp missing); using deterministic fallback.\n")
        /\ Contains(report.text, "- Context digest: " \o Prefix(user_prompt, DigestLen))
        /\ IF Observed
           THEN /\ Len(events) = 10
                /\ \A k \in 1..4 :
                      /\ events[k].role = FanoutRoles[k] /\ events[k].state = "running"
                      /\ events[4 + k] = StatusEvent(FanoutRoles[k], "fallback", last_fanout[k].text)
                /\ events[9].role = "summarizer" /\ events[9].state = "running"
                /\ events[10].role = "summarizer" /\ events[10].state = "fallback"
           ELSE events = <<>>

\* the fallback run without an observer is over
C11_Witness ==
    /\ pc = "done" /\ nim_enabled /\ ~aiohttp_present /\ ~Observed
    /\ Len(last_fanout) = 4 /\ report.set /\ events = <<>>

\* the text of _fallback_summary before the reason and between the reason and
\* the digest
FallbackHead ==
    "## next_experiments\n"
    \o "- {'uart_rate': 230400, 'buffer_size': 64}\n"
    \o "- {'uart_rate': 115200, 'buffer_size': 128}\n\n"
    \o "## instrumentation\n"
    \o "- Ensure every uart.log line is timestamped and includes RUN_START/RUN_END markers.\n"
    \o "- Add explicit ERROR codes to improve last_error_code extraction.\n\n"
    \o "## risks\n"
    \o "- NIM unavailable ("

FallbackMiddle ==
    "); using deterministic fallback.\n\n"
    \o "## demo_guidance\n"
    \o "- Keep runner as the only hardware-touching module and iterate until pass.\n"
    \o "- Context digest: "

\* the invocations made so far agree on equal arguments, and each text is the
\* fixed frame around the reason and the evidence cut to 160 characters
C12_State ==
    /\ \A i \in DOMAIN fb_calls : \A j \in DOMAIN fb_calls :
          (fb_calls[i].reason = fb_calls[j].reason /\ fb_calls[i].prompt = fb_calls[j].prompt)
              => fb_calls[i].text = fb_calls[j].text
    /\ \A i \in DOMAIN fb_calls :
          LET c == fb_calls[i]
              kept == IF Len(c.prompt) < 160 THEN Len(c.prompt) ELSE 160
          IN  /\ Len(c.text) = Len(FallbackHead) + Len(c.reason) + Len(FallbackMiddle) + kept
              /\ StartsWith(c.text, FallbackHead \o c.reason \o FallbackMiddle)
              /\ SubSeq(c.text, Len(c.text) - kept + 1, Len(c.text)) = SubSeq(c.prompt, 1, kept)
              /\ Contains(c.prompt, EvidenceTail) => ~Contains(c.text, EvidenceTail)

\* an invocation leaves the orchestrator, the observer and the backend alone
C12_Step ==
    fb_calls' # fb_calls =>
        /\ last_fanout' = last_fanout
        /\ events' = events /\ requests' = requests
        /\ UNCHANGED runVars

C13_Disabled ==
    (pc = "done" /\ ~nim_enabled) =>
        /\ report = [set |-> TRUE, text |-> "NIM orchestration disabled via config."]
        /\ requests = <<>>
        /\ run_outcome = "none"
        /\ last_fanout = <<>>
        /\ IF Observed
           THEN /\ Len(events) = 5
                /\ \A r \in {"planner", "coder", "critic", "summarizer", "verifier"} :
                      /\ Cardinality(EventsOf(r, {"disabled"})) = 1
                      /\ EventsOf(r, {"running", "done", "error", "fallback"}) = {}
           ELSE events = <<>>

\* the disabled report was made with an observer
C13_Witness ==
    /\ pc = "done" /\ ~nim_enabled /\ Observed
    /\ Len(events) = 5 /\ events[4].role = "summarizer" /\ events[4].state = "disabled"

\* the last request made
LastRequest == requests[Len(requests)]

\* C14: a merge call that fails is not turned into a placeholder: the
\* exception leaves run() and the caller returns the fallback report built
\* from the exception's message and the evidence; whichever call fails, a run
\* that is over has handed the caller a non-empty string (the report of run()
\* or that fallback report).
C14_MergeFailurePropagates ==
    nim_enabled =>
        /\ (FirstMerge > 0 /\ requests[FirstMerge].result = "error") =>
              /\ pc = "done" /\ run_outcome = "raised"
              /\ summary = NoOutput
              /\ Len(requests) = FirstMerge
              /\ report = [set |-> TRUE,
                           text |-> FallbackSummary(requests[FirstMerge].val, user_prompt)]
              /\ ~Contains(report.text, "summarizer unavailable")
              /\ Contains(report.text, "NIM unavailable (" \o requests[FirstMerge].val \o ")")
              /\ Contains(report.text, "Context digest: " \o user_prompt)
        /\ pc = "done" =>
              /\ report.set /\ report.text # ""
              /\ run_outcome \in {"returned", "raised"}
              /\ run_outcome = "raised" =>
                    /\ LastRequest.result = "error"
                    /\ report.text = FallbackSummary(LastRequest.val, user_prompt)

\* the merge call failed after a fan-out whose four calls were answered
C14_Witness ==
    /\ RealRun /\ pc = "done" /\ run_outcome = "raised"
    /\ Len(requests) = 5 /\ requests[5].role = "summarizer" /\ requests[5].result = "error"
    /\ \A k \in 1..4 : requests[k].result = "ok"
    /\ Contains(report.text, "NIM unavailable (http 500: down)")

\* the repeated run is at the point where the caller has its answer
TwinOver(observer) == first_run.set /\ status_callback = observer /\ pc \in {"done", "raised"}

\* the role and the user input of every request, in order
Calls(reqs) == [i \in DOMAIN reqs |-> <<reqs[i].role, reqs[i].user>>]

\* C16: a run with no observer does what the run with an observer did on the
\* same evidence, configuration and backend answers: at every point its
\* requests are a prefix of the other run's, role by role and input by input,
\* and when it is over it has posted the same requests, recorded the same
\* RoundState and handed back the same report in the same way; it emits
\* nothing and nothing raises for want of an observer.
C16_ObserverPassive ==
    (first_run.set /\ status_callback = "none") =>
        /\ Len(requests) <= Len(first_run.requests)
        /\ Calls(requests) = SubSeq(Calls(first_run.requests), 1, Len(requests))
        /\ events = <<>>
        /\ pc # "raised"
        /\ pc = "done" =>
              /\ requests = first_run.requests
              /\ last_fanout = first_run.last_fanout
              /\ report = first_run.report
              /\ run_outcome = first_run.run_outcome

\* a parallel run with relayed peer requests was repeated without observer
C16_Witness ==
    /\ TwinOver("none") /\ RealRun /\ execution_mode = "parallel"
    /\ Len(requests) > 5 /\ run_outcome = "returned"
    /\ requests[2].result = "error"

\* C15: under an observer that raises, a run() that returned its report under
\* the working observer posts the same requests, records the same RoundState
\* and returns the same report; it does not raise, and no output is recorded
\* as unavailable on account of the observer.
C15_RaisingObserverHarmless ==
    (TwinOver("raises") /\ RealRun /\ first_run.run_outcome = "returned") =>
        /\ pc = "done"
        /\ run_outcome = first_run.run_outcome
        /\ Calls(requests) = Calls(first_run.requests)
        /\ last_fanout = first_run.last_fanout
        /\ report = first_run.report
        /\ \A k \in DOMAIN normalized : ~Contains(normalized[k].text, "unavailable: observer")

\* the events of the single call in one of states
CallEventsIn(states) == {i \in DOMAIN ca.events : ca.events[i].state \in states}

\* the time the backend took to answer the single call
CallElapsed == ca.arrived - ca.t0

\* C17: a call whose response arrived before the role's minimum visible
\* duration m had passed emits done and returns no earlier than t0 + m, and
\* not before its sleep is over; the text returned is the one extracted when
\* the response arrived; a call that took m or longer emits done and returns
\* at the time the response arrived.
C17_MinVisibleDuration ==
    /\ ca.st = "sleeping" =>
          /\ CallElapsed < ca.role_min
          /\ ca.wake = ca.t0 + ca.role_min
          /\ CallEventsIn({"done"}) = {}
    /\ ca.st = "returned" =>
          /\ ca.text = CompletionText(ca.role, ReadResponse(ca.status, ca.body).text)
          /\ CallElapsed < ca.role_min =>
                /\ ca.finished >= ca.t0 + ca.role_min
                /\ \A i \in CallEventsIn({"done"}) : ca.events[i].at >= ca.t0 + ca.role_min
          /\ CallElapsed >= ca.role_min =>
                /\ ca.finished = ca.arrived
                /\ \A i \in CallEventsIn({"done"}) : ca.events[i].at = ca.arrived
          /\ ca.observer = "ok" =>
                /\ Len(ca.events) = 2
                /\ ca.events[2] = [role |-> ca.role, state |-> "done", message |-> ca.text,
                                   at |-> ca.finished]

\* an observed call answered one tick into a minimum of two returned late
C17_Witness ==
    /\ ca.st = "returned" /\ ca.observer = "ok"
    /\ ca.role_min = 2 /\ CallElapsed = 1
    /\ ca.finished > ca.t0 + ca.role_min
    /\ ca.text = "use 230400"

\* the bodies that are not a chat completion: no JSON, JSON that is not an
\* object, or an object without choices[0].message.content as a string
MalformedBodies ==
    {"not_json", "json_list", "no_choices", "empty_choices", "no_message", "no_content",
     "null_content"}

\* C18: a call whose response has a status of 400 or more, or a body that is
\* not a chat completion, raises: it returns no output and emits no done
\* event.
C18_MalformedResponseFails ==
    (ca.st \in {"returned", "raised"}
        /\ (ca.status >= 400 \/ ca.body \in MalformedBodies)) =>
        /\ ca.st = "raised"
        /\ ca.text = ""
        /\ CallEventsIn({"done"}) = {}

\* C19: a call answered with a success status and a chat completion whose
\* content is empty or only whitespace returns the text '<role> produced
\* empty output'; the observer gets running and then done carrying that
\* text, and no error event; the call does not raise.
C19_EmptyOutputPlaceholder ==
    (ca.st \in {"sleeping", "returned", "raised"}
        /\ ca.status < 400 /\ ca.body \in {"blank", "empty"}) =>
        /\ ca.st # "raised" /\ ca.exc = ""
        /\ ca.text = ca.role \o " produced empty output"
        /\ CallEventsIn({"error"}) = {}
        /\ ca.st = "returned" =>
              IF ca.observer = "ok"
              THEN /\ Len(ca.events) = 2
                   /\ ca.events[1].state = "running"
                   /\ ca.events[2].state = "done"
                   /\ ca.events[2].role = ca.role
                   /\ ca.events[2].message = ca.role \o " produced empty output"
              ELSE ca.events = <<>>

\* the critic got a whitespace-only completion and an observer saw it done
C19_Witness ==
    /\ ca.st = "returned" /\ ca.observer = "ok" /\ ca.role = "critic"
    /\ ca.status = 200 /\ ca.body = "blank"
    /\ ca.text = "critic produced empty output"

\* the requests that have no answer yet
Pending == {i \in DOMAIN requests : requests[i].result = "pending"}

\* C20: in sequential mode the first four requests go to planner, coder,
\* critic, verifier in that order, each with the raw evidence as user input
\* and each posted only when the one before has its answer; no two requests
\* are ever pending together and no task is created; for the observer the
\* fan-out is running then done or error for one role after the other, error
\* exactly when the role's call failed.
C20_SequentialFanout ==
    (execution_mode = "sequential" /\ RealRun) =>
        /\ \A k \in 1..4 :
              k <= Len(requests) =>
                  /\ requests[k].role = FanoutRoles[k]
                  /\ requests[k].user = user_prompt
                  /\ k > 1 => requests[k - 1].result # "pending"
        /\ Cardinality(Pending) <= 1
        /\ \A t \in TaskIds : task[t] = NoTask /\ call[t] = IdleCall
        /\ Observed =>
              \A k \in 1..4 :
                  /\ 2 * k - 1 <= Len(events) =>
                        events[2 * k - 1] = StatusEvent(FanoutRoles[k], "running", RunningMessage)
                  /\ 2 * k <= Len(events) =>
                        /\ events[2 * k].role = FanoutRoles[k]
                        /\ events[2 * k].state =
                              (IF requests[k].result = "error" THEN "error" ELSE "done")

\* critic is running after planner succeeded and coder failed
C20_Witness ==
    /\ execution_mode = "sequential" /\ RealRun /\ Observed
    /\ pc = "seq_call" /\ Len(requests) = 3
    /\ requests[1].result = "ok" /\ requests[2].result = "error"
    /\ requests[3].result = "pending"
    /\ Len(events) = 5 /\ events[4].state = "error" /\ events[5].role = "critic"

\* what the fan-out records for the answer to its request i: the completion's
\* text, or the placeholder of the failed call
RecordedFor(i) ==
    IF requests[i].result = "error"
    THEN requests[i].role \o " unavailable: " \o requests[i].val
    ELSE OutputOfRequest(i)

\* the fan-out's first two calls have been answered in this order of positions
AnsweredBefore(r1, r2) ==
    /\ FirstEvent(r1, {"done", "error"}) > 0 /\ FirstEvent(r2, {"done", "error"}) > 0
    /\ FirstEvent(r1, {"done", "error"}) < FirstEvent(r2, {"done", "error"})

\* C21: in parallel mode planner and coder are both requested with the raw
\* evidence, and both running events are out, before either call is answered
\* or has a terminal event; whichever completes first, the recorded outputs
\* and the inputs of critic and verifier are determined by the answers alone
\* (planner's answer in planner's place, coder's in coder's).
C21_ParallelStart ==
    (execution_mode = "parallel" /\ RealRun) =>
        /\ (\/ \E i \in DOMAIN requests : requests[i].result # "pending"
            \/ \E t \in TaskIds : task[t].st \in {"done", "raised"} \/ call[t].st = "sleeping"
            \/ \E i \in DOMAIN events : events[i].state \in Terminal) =>
              /\ Len(requests) >= 2
              /\ requests[1].role = "planner" /\ requests[1].user = user_prompt
              /\ requests[2].role = "coder" /\ requests[2].user = user_prompt
              /\ Observed =>
                    /\ events[1] = StatusEvent("planner", "running", RunningMessage)
                    /\ events[2] = StatusEvent("coder", "running", RunningMessage)
        /\ fanout_done # <<>> =>
              /\ fanout_done[1] = [role |-> "planner", text |-> RecordedFor(1)]
              /\ fanout_done[2] = [role |-> "coder", text |-> RecordedFor(2)]
              /\ requests[3].user =
                     user_prompt \o "\n\n[coder_proposal]\n" \o RecordedFor(2)
                                 \o "\n\n[planner_experiments]\n" \o RecordedFor(1)
              /\ requests[4].user =
                     user_prompt \o "\n\n[planner]\n" \o RecordedFor(1)
                                 \o "\n\n[coder]\n" \o RecordedFor(2)
                                 \o "\n\n[critic]\n" \o RecordedFor(3)

\* the fan-out is over in a run whose coder call completed before its planner
\* call, with different answers
C21_Witness ==
    /\ execution_mode = "parallel" /\ RealRun /\ Observed /\ fanout_done # <<>>
    /\ AnsweredBefore("coder", "planner")
    /\ requests[1].val = "@coder: add crc" /\ requests[2].val = "coder: use 230400"

\* the same answers with planner's call completing first
C21_PlannerFirst ==
    /\ execution_mode = "parallel" /\ RealRun /\ Observed /\ fanout_done # <<>>
    /\ AnsweredBefore("planner", "coder")
    /\ requests[1].val = "@coder: add crc" /\ requests[2].val = "coder: use 230400"

\* C25: in parallel mode, whatever rework_rounds is, the first summarizer
\* request is the last request of the run (no coder or summarizer call follows
\* it, and run() never stands in a rework call), and the report run() returns
\* is the output of that first merge call.
C25_NoParallelRework ==
    (execution_mode = "parallel" /\ RealRun) =>
        /\ pc \notin {"rework_coder", "rework_summarizer"}
        /\ FirstMerge > 0 =>
              /\ Len(requests) = FirstMerge
              /\ AfterFirstMerge("coder") = {} /\ AfterFirstMerge("summarizer") = {}
              /\ (pc = "done" /\ run_outcome = "returned") =>
                    /\ requests[FirstMerge].result = "ok"
                    /\ report = [set |-> TRUE, text |-> OutputOfRequest(FirstMerge)]

\* a parallel run configured with rework rounds returned its report
C25_Witness ==
    /\ execution_mode = "parallel" /\ RealRun /\ coordinator_rework_rounds >= 1
    /\ pc = "done" /\ run_outcome = "returned"
    /\ Len(requests) = 5 /\ requests[5].role = "summarizer"

\* the coroutines that stand in a _call_agent invocation
Active == {c \in Coroutines : call[c].st # "idle"}

C27_State ==
    /\ \A c1 \in Active : \A c2 \in Active : c1 # c2 => call[c1].role # call[c2].role
    /\ \A i \in Pending : \E c \in Active : call[c].req = i /\ call[c].role = requests[i].role
    /\ Cardinality(Active) <= 2
    /\ Cardinality(Active) = 2 =>
          /\ Active = {"planner", "coder"}
          /\ execution_mode = "parallel" /\ pc \in {"par_await_planner", "par_await_coder"}
          /\ call["planner"].req = 1 /\ call["coder"].req = 2
          /\ normalized = <<>> /\ fanout_done = <<>>
    /\ pc \in {"par_critic", "par_verifier", "seq_call", "relay_call", "merge_call",
                "rework_coder", "rework_summarizer"} =>
          /\ Active = {"main"}
          /\ \A t \in TaskIds : task[t].st \in {"none", "done", "raised"}
    /\ \A k \in DOMAIN normalized : normalized[k].role = FanoutRoles[k]

C27_Step ==
    normalized' # normalized =>
        /\ Active = {"main"}
        /\ Len(normalized') >= Len(normalized)
        /\ \A k \in DOMAIN normalized : normalized'[k].role = normalized[k].role

\* C27: no two calls of one role are ever in flight; two calls are in flight
\* together only as the planner/coder pair of the parallel fan-out, before
\* RoundState exists; every other call (critic, verifier, sequential fan-out,
\* relay, merge, rework) is in flight alone, in both modes; and RoundState is
\* written only by run() as its single in-flight call completes, each entry
\* keeping its role.
C27_OneCallPerRole == []C27_State /\ [][C27_Step]_vars

\* both tasks of the parallel fan-out are in flight
C27_Witness ==
    /\ execution_mode = "parallel" /\ Active = {"planner", "coder"}
    /\ requests[1].result = "pending" /\ requests[2].result = "pending"

\* the last request made for role before the first merge
LastBeforeMerge(role) ==
    CHOOSE i \in RequestsOf(role) :
        i < FirstMerge /\ \A j \in RequestsOf(role) : j < FirstMerge => j <= i

\* what run() holds for role when it merges: the output of the role's last
\* call, or the placeholder of the phase the call failed in
PostRelayText(role) ==
    LET i == LastBeforeMerge(role)
    IN  IF requests[i].result # "error" THEN OutputOfRequest(i)
        ELSE IF i <= 4 THEN role \o " unavailable: " \o requests[i].val
        ELSE role \o " unavailable after peer request: " \o requests[i].val

\* the merge input written out for the four roles
LabelledSections ==
    "[planner]\n" \o PostRelayText("planner") \o "\n\n"
    \o "[coder]\n" \o PostRelayText("coder") \o "\n\n"
    \o "[critic]\n" \o PostRelayText("critic") \o "\n\n"
    \o "[verifier]\n" \o PostRelayText("verifier")

\* C30: when the first summarizer request is made every fan-out and relay
\* request has its answer and none is made afterwards; its input is the four
\* sections '[role]\n<text>' in the order planner, coder, critic, verifier,
\* joined by blank lines, where <text> is the role's output after the relay
\* or the placeholder of its failed call; and it is the only request with
\* that input.
C30_FirstMerge ==
    (RealRun /\ FirstMerge > 0) =>
        /\ FirstMerge >= 5
        /\ \A i \in 1..(FirstMerge - 1) :
              requests[i].role \in FanoutRoleSet /\ requests[i].result # "pending"
        /\ \A i \in (FirstMerge + 1)..Len(requests) :
              requests[i].role \in {"coder", "summarizer"}
              /\ requests[i].user # requests[FirstMerge].user
        /\ requests[FirstMerge].user = LabelledSections
        /\ \A k \in 1..4 : last_fanout[k] = [role |-> FanoutRoles[k],
                                               text |-> PostRelayText(FanoutRoles[k])]

\* the merge is requested after planner failed in the fan-out and coder
\* failed in the relay
C30_Witness ==
    /\ RealRun /\ FirstMerge = 6 /\ pc = "merge_call"
    /\ requests[1].result = "error"
    /\ requests[5].role = "coder" /\ requests[5].result = "error"
    /\ Contains(requests[6].user, "[planner]\nplanner unavailable: http 500: down\n\n[coder]\n")
    /\ Contains(requests[6].user, "[coder]\ncoder unavailable after peer request: http 500: down")

\* how the user input of a relay request for role in pass r (1-based) begins
RelayHead(role, r) ==
    "Peer agents requested follow-up specialization. Address these requests for role="
    \o role \o " and refine your output.\n\n[peer_requests_round_" \o DecStr(r) \o "]\n"

\* the requests after the fan-out that are not for the merge role: with no
\* rework configured, the relay's calls
RelayCalls == {i \in DOMAIN requests : i > 4 /\ requests[i].role # "summarizer"}

\* the relay requests made for role in pass r
RelayRequests(role, r) == {i \in RelayCalls : StartsWith(requests[i].user, RelayHead(role, r))}

\* the entry the relay records for an answered relay request
RefreshedFor(i) ==
    IF requests[i].result = "error"
    THEN requests[i].role \o " unavailable after peer request: " \o requests[i].val
    ELSE OutputOfRequest(i)

\* the positions after j whose role has messages in the current pass
LaterAddressed(j) == {k \in (j + 1)..4 : inbox[FanoutRoles[k]] # <<>>}

\* the relay call in flight fails in this step
RelayCallFails ==
    /\ pc = "relay_call" /\ call["main"].st = "inflight"
    /\ requests'[call["main"].req].result = "error"

\* the relay call, answered, returns in this step
RelayCallReturns ==
    pc = "relay_call" /\ call["main"].st = "sleeping" /\ call'["main"] # call["main"]

RelayCallEnds == RelayCallFails \/ RelayCallReturns

\* the pass the relay stands in is over with this step
PassEnds == RelayCallEnds /\ LaterAddressed(item_idx) = {}

C24_ZeroRounds ==
    /\ peer_message_rounds = 0 /\ pc = "merge_call"
    /\ HasRequestLine(fanout_done[1].text)

\* C24: the relay makes at most peer_message_rounds passes (every relay
\* request belongs to a pass numbered 1..peer_message_rounds, and to one role
\* once per pass), hence at most 4 x peer_message_rounds calls; with
\* peer_message_rounds = 0 the request after the fan-out is the merge and
\* RoundState is what the fan-out left, request lines or not.
C24_RelayBounded ==
    /\ Cardinality(RelayCalls) <= 4 * peer_message_rounds
    /\ pc = "relay_call" => round_idx < peer_message_rounds
    /\ \A i \in RelayCalls : \E r \in 1..peer_message_rounds :
          LET head == RelayHead(requests[i].role, r)
          IN  /\ StartsWith(requests[i].user, head)
              /\ \A j \in RelayCalls :
                    (j > i /\ requests[j].role = requests[i].role) =>
                        ~StartsWith(requests[j].user, head)
    /\ (peer_message_rounds = 0 /\ Len(requests) >= 5) =>
          /\ requests[5].role = "summarizer" /\ RelayCalls = {}
          /\ normalized = fanout_done /\ last_fanout = fanout_done
          /\ requests[5].user = JoinWith([k \in 1..4 |->
                 "[" \o FanoutRoles[k] \o "]\n" \o fanout_done[k].text], "\n\n")

\* two passes were made with two passes allowed, coder and critic re-invoked
\* in both, and the merge is on
C24_Witness ==
    /\ peer_message_rounds = 2 /\ pc = "merge_call"
    /\ Cardinality(RelayCalls) = 4
    /\ RelayRequests("coder", 2) # {} /\ RelayRequests("critic", 2) # {}

\* the smallest position of a non-empty set of positions
First(ks) == CHOOSE k \in ks : \A m \in ks : k <= m

\* the entry the pass holds for position k once the call at item_idx has
\* ended with the text answer: refreshed so far, the answer, or the
\* pass-through
PassResult(k, answer) ==
    IF k < item_idx THEN refreshed[k]
    ELSE IF k = item_idx THEN [role |-> FanoutRoles[k], text |-> answer]
    ELSE normalized[k]

ErrorEventsOf(evs, role, exc) ==
    {i \in DOMAIN evs : evs[i] = StatusEvent(role, "error", exc)}

C22_Step ==
    RelayCallFails =>
        LET req == call["main"].req
            role == requests[req].role
            exc == requests'[req].val
            placeholder == [role |-> role,
                            text |-> role \o " unavailable after peer request: " \o exc]
        IN  /\ run_outcome' = "none" /\ pc' \in {"relay_call", "merge_call"}
            /\ Observed =>
                  Cardinality(ErrorEventsOf(events', role, exc))
                      = Cardinality(ErrorEventsOf(events, role, exc)) + 1
            /\ requests'[Len(requests')].result = "pending"
            /\ IF LaterAddressed(item_idx) # {}
               THEN /\ pc' = "relay_call" /\ round_idx' = round_idx
                    /\ item_idx' = First(LaterAddressed(item_idx))
                    /\ requests'[Len(requests')].role = FanoutRoles[item_idx']
                    /\ refreshed'[item_idx] = placeholder
               ELSE /\ normalized'[item_idx] = placeholder
                    /\ IF round_idx + 1 < peer_message_rounds
                          /\ \E k \in 1..4 : HasRequestLine(normalized'[k].text)
                       THEN pc' = "relay_call" /\ round_idx' = round_idx + 1
                       ELSE /\ pc' = "merge_call"
                            /\ requests'[Len(requests')].role = "summarizer"
                            /\ last_fanout' = normalized'

\* C22: when a relay call fails run() does not end: the role's entry becomes
\* '<role> unavailable after peer request: <error>', the observer gets one
\* error event for it, the next role with messages in the same pass is called
\* next, and after the pass the next pass (when one is left and an output
\* still holds a request) or the merge follows.
C22_RelayIsolation == [][C22_Step]_vars

\* coder's relay call failed and critic, addressed in the same pass, is being
\* re-invoked
C22_Witness ==
    /\ pc = "relay_call" /\ Observed /\ item_idx = 3 /\ call["main"].role = "critic"
    /\ Len(refreshed) = 2
    /\ refreshed[2].text = "coder unavailable after peer request: http 500: down"

\* the one element of a singleton set of positions
TheOne(ks) == CHOOSE k \in ks : TRUE

C23_State ==
    pc = "relay_call" =>
        /\ Len(normalized) = 4 /\ Len(refreshed) = item_idx - 1
        /\ inbox[FanoutRoles[item_idx]] # <<>>
        /\ RelayRequests(FanoutRoles[item_idx], round_idx + 1) = {call["main"].req}
        /\ \A k \in 1..4 :
              LET reqs == RelayRequests(FanoutRoles[k], round_idx + 1)
              IN  /\ (k > item_idx \/ inbox[FanoutRoles[k]] = <<>>) => reqs = {}
                  /\ (k < item_idx /\ inbox[FanoutRoles[k]] = <<>>) =>
                        refreshed[k] = normalized[k]
                  /\ (k < item_idx /\ inbox[FanoutRoles[k]] # <<>>) =>
                        /\ Cardinality(reqs) = 1
                        /\ refreshed[k] = [role |-> FanoutRoles[k],
                                            text |-> RefreshedFor(TheOne(reqs))]

C23_Step ==
    RelayCallEnds =>
        LET req == call["main"].req
            answer == IF RelayCallFails
                      THEN requests[req].role \o " unavailable after peer request: "
                               \o requests'[req].val
                      ELSE OutputOfRequest(req)
        IN  IF LaterAddressed(item_idx) # {}
            THEN /\ normalized' = normalized /\ inbox' = inbox
                 /\ refreshed' = [k \in 1..(First(LaterAddressed(item_idx)) - 1) |->
                                     PassResult(k, answer)]
            ELSE normalized' = [k \in 1..4 |-> PassResult(k, answer)]

\* C23: within a pass every role with messages is re-invoked once, in
\* RoundState order, and its entry becomes the refreshed output (the
\* placeholder when the call failed); a role without messages gets no request
\* in that pass and its entry is carried over as it is.
C23_RelayRefresh == []C23_State /\ [][C23_Step]_vars

\* a pass is over that refreshed coder and passed planner and verifier
\* through
C23_Witness ==
    /\ pc = "merge_call" /\ peer_message_rounds = 1
    /\ RelayRequests("coder", 1) # {} /\ RelayRequests("planner", 1) = {}
    /\ RelayRequests("verifier", 1) = {}
    /\ normalized[1] = fanout_done[1] /\ normalized[4] = fanout_done[4]
    /\ normalized[2] # fanout_done[2]
    /\ HasRequestLine(normalized[1].text)

\* the requests the roles of this backend can make, as the relay words them
PeerBullets ==
    { [sender |-> "planner", line |-> "- from planner: add crc"],
      [sender |-> "planner", line |-> "- from planner: check risk"],
      [sender |-> "coder", line |-> "- from coder: confirm crc"],
      [sender |-> "verifier", line |-> "- from verifier: recheck uart.log"] }

\* the relay request made for role in pass r lists the request line
Delivered(role, r, line) ==
    \E i \in RelayRequests(role, r) : Contains(requests[i].user, "\n" \o line \o "\n")

\* C29: a request delivered to its addressee in pass r, whose sender was not
\* re-invoked in pass r (its output is what it was), is not delivered to the
\* addressee again in pass r + 1.
C29_RequestEphemeral ==
    \A r \in 1..(peer_message_rounds - 1) : \A role \in FanoutRoleSet : \A b \in PeerBullets :
        (Delivered(role, r, b.line) /\ RelayRequests(b.sender, r) = {}) =>
            ~Delivered(role, r + 1, b.line)

\* the message of the request the line makes to role, "" when it makes none:
\* the stripped line is '@' or 'CALL' and blanks, the role's name in any case,
\* optional blanks, a colon, and a message that is not blank
RequestTo(raw, role) ==
    LET s == Strip(raw)
        isCall == Len(s) >= 4 /\ Lower(SubSeq(s, 1, 4)) = "call"
        heads == {a \in 1..Len(s) :
                     \/ a = 1 /\ Char(s, 1) = "@"
                     \/ a >= 5 /\ isCall /\ AllSpace(SubSeq(s, 5, a))}
        named == {a \in heads :
                     /\ a + Len(role) <= Len(s)
                     /\ Lower(SubSeq(s, a + 1, a + Len(role))) = role}
        colons == {c \in 1..Len(s) :
                     /\ Char(s, c) = ":"
                     /\ \E a \in named :
                           /\ a + Len(role) < c
                           /\ AllSpace(SubSeq(s, a + Len(role) + 1, c - 1))}
    IN  IF colons = {} THEN "" ELSE Strip(SubSeq(s, First(colons) + 1, Len(s)))

\* the places <<output, line>> of the collected outputs that hold a request
\* to role
RequestPlaces(role) ==
    {p \in (1..4) \X (1..4) :
        /\ p[2] <= Len(SplitLines(pm.outputs[p[1]].text))
        /\ RequestTo(SplitLines(pm.outputs[p[1]].text)[p[2]], role) # ""}

\* RoundState order, then line order
PlaceBefore(p, q) == p[1] < q[1] \/ (p[1] = q[1] /\ p[2] <= q[2])

\* C28: the inbox has the four fan-out roles as its keys, and the inbox of
\* role R lists, in RoundState order then line order, one entry
\* 'from <sender>: <msg>' per line that is a request to R ('@R: msg' or
\* 'CALL R: msg' in any case, msg not blank) in any output, the sender's own
\* included, and nothing else: lines to summarizer or to another name add
\* nothing.
C28_Inbox ==
    pm.set =>
        /\ DOMAIN pm.inbox = FanoutRoleSet
        /\ \A role \in FanoutRoleSet :
              LET places == RequestPlaces(role)
              IN  /\ Len(pm.inbox[role]) = Cardinality(places)
                  /\ \A p \in places :
                        pm.inbox[role][Cardinality({q \in places : PlaceBefore(q, p)})]
                            = "from " \o FanoutRoles[p[1]] \o ": "
                              \o RequestTo(SplitLines(pm.outputs[p[1]].text)[p[2]], role)

\* coder is addressed by planner and by itself, in that order; planner's
\* output also addresses critic, and verifier's the merge role and an unknown
\* name
C28_Witness ==
    /\ pm.set
    /\ pm.outputs[1].text = "@coder: add crc\nCALL  Critic :  check risk"
    /\ pm.outputs[2].text = "@coder: a: b\nCALLcoder: x\n@ coder: y\n@coderx: z"
    /\ pm.outputs[4].text = "call VERIFIER:recheck\n@summarizer: merge now\n@tester: run"
    /\ pm.inbox["coder"] = <<"from planner: add crc", "from coder: a: b">>
    /\ pm.inbox["verifier"] = <<"from verifier: recheck">>

\* the calls one run may make: four of the fan-out, four per relay pass, the
\* merge, and two per rework round
CallBudget == 4 + 4 * peer_message_rounds + 1 + 2 * coordinator_rework_rounds

\* run() has ended: it returned its report or raised
RunEnded == pc = "done" /\ (nim_enabled => run_outcome \in {"returned", "raised"})

\* C26: when every step that can be taken is eventually taken (every backend
\* call ends, every ready coroutine is run), run() terminates, by returning or
\* by raising, and at no point of a run has it made more than
\* 4 + 4 * peer_message_rounds + 1 + 2 * rework_rounds backend calls.
C26_Terminates == [](Len(requests) <= CallBudget) /\ <>RunEnded

\* a sequential run with one relay pass and one rework round returned after
\* ten calls: four of the fan-out, three of the relay, the merge, two of the
\* rework round
C26_Witness ==
    /\ pc = "done" /\ run_outcome = "returned" /\ backend = "peers"
    /\ execution_mode = "sequential"
    /\ peer_message_rounds = 1 /\ coordinator_rework_rounds = 1
    /\ Len(requests) = 10

\* s ends with t
EndsWith(s, t) == Len(t) <= Len(s) /\ SubSeq(s, Len(s) - Len(t) + 1, Len(s)) = t

\* the summarizer requests made before request i
MergesBefore(i) == {j \in RequestsOf("summarizer") : j < i}

\* the last request made to the summarizer
LastMerge == CHOOSE i \in RequestsOf("summarizer") : \A j \in RequestsOf("summarizer") : j <= i

\* C31: a coder request of the rework loop, the k-th one, follows a
\* summarizer request at once and its input ends with the section
\* '[current_summary_round_k]' holding that summarizer call's report and the
\* section '[original_evidence]' holding the evidence run() was given; the
\* summarizer request that follows it has the input of the summarizer request
\* before it with the one section '[coder_rework_round_k]' holding the coder's
\* revision appended; and a report run() returns is the output of the last
\* summarizer request, which is the last request of the run.
C31_ReworkChain ==
    RealRun =>
        /\ \A i \in AfterFirstMerge("coder") :
              LET k == Cardinality(MergesBefore(i))
              IN  /\ requests[i - 1].role = "summarizer" /\ requests[i - 1].result = "ok"
                  /\ EndsWith(requests[i].user,
                         "[current_summary_round_" \o DecStr(k) \o "]\n"
                         \o OutputOfRequest(i - 1)
                         \o "\n\n[original_evidence]\n" \o user_prompt)
        /\ \A j \in AfterFirstMerge("summarizer") :
              LET k == Cardinality(MergesBefore(j)) \* the first merge and k - 1 rounds
              IN  /\ requests[j - 1].role = "coder" /\ requests[j - 1].result = "ok"
                  /\ requests[j - 2].role = "summarizer"
                  /\ requests[j].user
                        = requests[j - 2].user \o "\n\n[coder_rework_round_" \o DecStr(k) \o "]\n"
                          \o OutputOfRequest(j - 1)
        /\ (pc = "done" /\ run_outcome = "returned") =>
              /\ LastMerge = Len(requests)
              /\ report.text = OutputOfRequest(LastMerge)

\* two rework rounds were made and run() returned: the last summarizer
\* request carries both coder sections, the coder's second revision differing
\* from its first
C31_Witness ==
    /\ pc = "done" /\ run_outcome = "returned" /\ coordinator_rework_rounds = 2
    /\ Len(requests) = 9
    /\ requests[6].val # requests[8].val
    /\ requests[5].val # requests[7].val
    /\ Contains(requests[9].user, "[coder_rework_round_1]\n" \o OutputOfRequest(6)
                                   \o "\n\n[coder_rework_round_2]\n" \o OutputOfRequest(8))

\* four entries, one per fan-out role, in the order of FanoutRoles
FourInOrder(rs) ==
    /\ Len(rs) = 4
    /\ <<rs[1].role, rs[2].role, rs[3].role, rs[4].role>>
          = <<"planner", "coder", "critic", "verifier">>

\* C32: once the fan-out is over, RoundState (what the fan-out left, what
\* run() holds between and after relay rounds, and what it stores as
\* last_fanout) is four entries, planner, coder, critic, verifier in that
\* order, each carrying its slot's role; inside a relay round the refreshed
\* list is the slots before the one being called, in the same order.
C32_RoundStateShape ==
    RealRun =>
        /\ fanout_done # <<>> => (FourInOrder(fanout_done) /\ FourInOrder(normalized))
        /\ last_fanout # <<>> => FourInOrder(last_fanout)
        /\ pc \in {"merge_call", "rework_coder", "rework_summarizer"} =>
              (fanout_done # <<>> /\ last_fanout = normalized)
        /\ pc = "relay_call" =>
              /\ fanout_done # <<>> /\ Len(refreshed) = item_idx - 1
              /\ \A k \in 1..Len(refreshed) : refreshed[k].role = FanoutRoles[k]

\* a parallel run in which coder was answered before planner, planner's call
\* failed, and a relay round replaced coder's entry: the merge is on
C32_Witness ==
    /\ execution_mode = "parallel" /\ RealRun /\ pc = "merge_call"
    /\ AnsweredBefore("coder", "planner")
    /\ \E i \in RequestsOf("planner") : requests[i].result = "error"
    /\ normalized[2] # fanout_done[2] /\ normalized[1] = fanout_done[1]
    /\ Len(requests) = 6

\* run() makes a relay request in this step
RelayRequestMade == pc' = "relay_call" /\ Len(requests') = Len(requests) + 1

\* the step stays within the relay round run() stands in
SameRound == pc = "relay_call" /\ round_idx' = round_idx

C33_Step ==
    RelayRequestMade =>
        LET role == FanoutRoles[item_idx']
        IN  /\ requests'[Len(requests')].role = role
            /\ inbox'[role] # <<>>
            /\ requests'[Len(requests')].user
                  = PeerPrompt(role, round_idx', inbox'[role], normalized'[item_idx'].text,
                               user_prompt)
            /\ IF SameRound
               THEN /\ inbox' = inbox /\ normalized' = normalized
                    /\ Len(refreshed') > Len(refreshed)
                    /\ \A k \in (item_idx + 1)..(item_idx' - 1) :
                          inbox[FanoutRoles[k]] = <<>>
               ELSE /\ inbox' = CollectPeerMessages(normalized')
                    /\ \A k \in 1..(item_idx' - 1) : inbox'[FanoutRoles[k]] = <<>>
                    /\ pc = "relay_call" =>
                          /\ round_idx' = round_idx + 1
                          /\ \A k \in 1..Len(refreshed) : normalized'[k] = refreshed[k]
                          /\ normalized'[item_idx].text = call["main"].text
                                \/ RelayCallFails

\* C33: within a relay round the inbox and RoundState stay what they were when
\* the round began: each role re-invoked in the round is one with messages in
\* that inbox, its input is made of those messages and of its own output of
\* the round's beginning, and the roles skipped before it had none, whatever
\* the roles re-invoked earlier in the round answered; when a round begins
\* the inbox is computed from RoundState, which then holds the outputs the
\* round before refreshed.
C33_RoundSnapshot == [][C33_Step]_vars

\* coder, asked by planner, answered in round 1 with a request to verifier;
\* verifier, which had no message when round 1 began, was not re-invoked in
\* round 1 (critic, after coder, was) and is re-invoked in round 2 with
\* coder's request
C33_Witness ==
    /\ peer_message_rounds = 2
    /\ fanout_done # <<>> /\ fanout_done[2].text = "coder: use 230400"
    /\ fanout_done[4].text = "confidence=0.8"
    /\ RelayRequests("coder", 1) # {} /\ RelayRequests("critic", 1) # {}
    /\ RelayRequests("verifier", 1) = {}
    /\ Delivered("verifier", 2, "- from coder: confirm crc")

\* coder's call has failed and planner's call is still in flight
CoderFailedFirst == task["coder"].st = "raised" /\ call["planner"].st \in {"inflight", "sleeping"}

\* coder's done event came before planner's
CoderDoneFirst ==
    /\ FirstEvent("coder", {"done"}) > 0 /\ FirstEvent("planner", {"done"}) > 0
    /\ FirstEvent("coder", {"done"}) < FirstEvent("planner", {"done"})

\* planner's done event came before coder's
PlannerDoneFirst ==
    /\ FirstEvent("coder", {"done"}) > 0 /\ FirstEvent("planner", {"done"}) > 0
    /\ FirstEvent("planner", {"done"}) < FirstEvent("coder", {"done"})

C34_State ==
    (execution_mode = "parallel" /\ RealRun /\ Observed) =>
        /\ \A i \in EventsOf("coder", {"error"}) :
              \E j \in EventsOf("planner", {"done", "error"}) : j < i
        /\ CoderFailedFirst => EventsOf("coder", {"error"}) = {}

\* the failure of a task's call emits nothing when it happens
C34_Step ==
    (\E t \in TaskIds : task[t].st # "raised" /\ task'[t].st = "raised") => events' = events

\* C34: in parallel mode every error event of coder comes after a done or
\* error event of planner: a coder call that fails while planner's call is in
\* flight emits nothing when it fails, and coder has no error event as long
\* as planner's call is not over.
C34_CoderErrorAfterPlanner == []C34_State /\ [][C34_Step]_vars

\* coder's call failed, planner's was answered, and the fan-out went on to
\* critic: planner's done event precedes coder's error event, which precedes
\* critic's running event
C34_Witness ==
    /\ execution_mode = "parallel" /\ RealRun /\ Observed
    /\ pc = "par_critic" /\ task["coder"].st = "raised" /\ task["planner"].st = "done"
    /\ FirstEvent("planner", {"done"}) > 0
    /\ FirstEvent("planner", {"done"}) < FirstEvent("coder", {"error"})
    /\ FirstEvent("coder", {"error"}) < FirstEvent("critic", {"running"})

\* the target key of the case run_case was called for
CaseTargetKey == TargetKeyForGuess(CaseGuessKey(rc.case_id))

\* C35: in the hunts by frame, parity and magic the parameters of every run
\* hold the target selected before the first run, whatever the report
\* proposed.
C35_TargetFixed ==
    rc.pc # "none" =>
        \A i \in DOMAIN rc.executed :
            /\ CaseTargetKey \in DOMAIN rc.executed[i]
            /\ rc.executed[i][CaseTargetKey] = rc.selected_target

\* the runs that passed
PassedRuns == {i \in DOMAIN rc.rows : rc.rows[i].status = "pass"}

\* C36: run_case makes at most `runs` runs, one row and one invocation of the
\* agents per run; a run that passed is the last one (no run and no
\* invocation of the agents follows it); and when run_case has returned the
\* rows are those of the runs made, the overall status is 'completed' and no
\* agent has the status 'running'.
C36_RunsBounded ==
    rc.pc # "none" =>
        /\ Len(rc.executed) <= rc.runs /\ Len(rc.executed) = rc.run_index
        /\ Len(rc.rows) = rc.guided
        /\ Len(rc.rows) = (IF rc.pc = "analyzed" THEN rc.run_index - 1 ELSE rc.run_index)
        /\ \A i \in DOMAIN rc.rows : rc.rows[i].run = i
        /\ \A i \in PassedRuns :
              /\ i = Len(rc.rows) /\ i = Len(rc.executed) /\ i = rc.guided
              /\ rc.pc \in {"after_loop", "returned"}
        /\ rc.pc = "returned" =>
              /\ Len(rc.rows) = Len(rc.executed)
              /\ PassedRuns = {} => Len(rc.rows) = rc.runs
              /\ rc.overall.status = "completed"
              /\ \A r \in DOMAIN rc.agents : rc.agents[r] # "running"

\* run_case, allowed three runs, returned after two: the first failed, the
\* second passed
C36_Witness ==
    /\ rc.pc = "returned" /\ rc.runs = 3 /\ Len(rc.rows) = 2
    /\ rc.rows[1].status = "fail" /\ rc.rows[2].status = "pass"
    /\ rc.overall = [status |-> "completed", current_run |-> 2]

\* the handler thread t takes a step
HandlerSteps(t) == srv'.thr[t] # srv.thr[t]

\* t handles a start request that arrived during a run which is still going on
StartDuringRun(t) ==
    /\ srv.thr[t].pc \in {"start_lock", "start_write_state", "start_write_log",
                          "start_popen", "start_respond", "start_except"}
    /\ srv.thr[t].seen # 0 /\ srv.thr[t].seen \in srv.alive

C37_Step ==
    \A t \in Handlers :
        (StartDuringRun(t) /\ HandlerSteps(t)) =>
            /\ srv'.PROCESS = srv.PROCESS /\ srv'.alive = srv.alive
            /\ srv'.STATE_PATH = srv.STATE_PATH /\ srv'.LOG_PATH = srv.LOG_PATH
            /\ srv'.thr[t].pc = "idle" => srv'.thr[t].code = 409

\* C37: at most one orchestrator child runs at any time, and a start request
\* that arrives while a run is in progress is answered 409 and changes
\* neither the running process nor the state file nor the log file
C37_StartRejected == [](Cardinality(srv.alive) <= 1) /\ [][C37_Step]_vars

\* t is at one of the two writes of _handle_reset
ResetWrites(t) ==
    /\ srv.thr[t].pc \in {"reset_write_state", "reset_write_log"}
    /\ HandlerSteps(t)

C38_Step == \A t \in Handlers : ResetWrites(t) => ~Running

\* C38: no reset writes the idle state over the state file or empties the
\* log file while the process of an accepted start is alive
C38_ResetKeepsRun == [][C38_Step]_vars

====
